---- MODULE Spec2Model ----
(***************************************************************************)
(* Shopping list application: the item routes, the cleanup job, the device *)
(* routes and the barcode endpoint of the backend, and the browser's       *)
(* offline operation queue with the application shell that drives it.      *)
(*                                                                         *)
(* One module, several specifications over the same variables:             *)
(*   SpecQueue   the QueueManager and its IndexedDB store, replaying       *)
(*               against the item routes                                   *)
(*   SpecApp     the App shell's mutations, online/offline handling, SSE   *)
(*               handler and item query, over the same QueueManager        *)
(*   SpecDrain   the QueueManager with handleOnline, the SSE handler and   *)
(*               the item query refetch                                    *)
(*   SpecItems   item completion routes and the hourly cleanup sweep       *)
(*   SpecDevices device registration, approval and deletion                *)
(*   SpecScan    the device barcode endpoint: device authentication and    *)
(*               barcode resolution through cache, lookup and LLM          *)
(*   SpecCatalog the barcode endpoint with item recategorization and the   *)
(*               deletion of items and categories                          *)
(*   SpecSse     the SSE connections and the routes that create items      *)
(*   SpecEnrich  POST /items and the enrichment tasks it starts            *)
(*   SpecBulk    POST /items/bulk-add                                      *)
(*   SpecEvents  the device event log and its cleanup                      *)
(*   SpecClassify the two isBarcode functions, on one input each           *)
(*   SpecMigrate the migration runner, run repeatedly on one database      *)
(*   SpecHa      the Home Assistant configuration: its routes, the         *)
(*               service's loadConfig and its five-minute cache            *)
(*   SpecEs      the browser's SSEClient: connect, error, reconnect        *)
(*               timer and disconnect                                      *)
(*   SpecBroadcast the SSE connections with sockets that break, and        *)
(*               the broadcasts of the user and API-key routes             *)
(*   SpecDevicePosts device registration and POST /devices/events          *)
(*   SpecRace    two barcode requests of the scanner at once               *)
(*   SpecFaults  the QueueManager over a store whose requests fail         *)
(*   SpecQueueKeys the QueueManager with the queueOperation calls the      *)
(*               store refuses                                             *)
(*   SpecEdit    the enrichment tasks with users' category edits           *)
(*   SpecLifecycle one item from creation through completion, edits        *)
(*               and enrichment to the cleanup sweep                       *)
(***************************************************************************)
EXTENDS Integers, Sequences, FiniteSets, TLC

\* ---------------------------------------------------------------- bounds
MaxItems == 1        \* rows the items table ever receives (serial ids 1..MaxItems)
MaxQueueKey == 1     \* highest key the queue store's key generator hands out
MaxTemp == 1         \* optimistic temp-<timestamp> entries alive in the cache at once
MaxNow == 26         \* hours the clock runs for
MaxDevices == 2      \* device inserts attempted (serial ids 1..MaxDevices)
MaxInFlight == 2     \* registrations of one deviceId between select and insert
MaxScanned == 2      \* items the barcode endpoint creates before the model stops it
MaxScans == 1        \* barcode requests in flight at once
MaxRace == 2         \* barcode requests in flight at once where they race for the cache
MaxLen == 14         \* characters between the padding of a classified input
MaxPosted == 2       \* items the user and API-key routes create in the backend specifications
MaxConnections == 2  \* SSE connections opened
MaxBlank == 1        \* blank or non-string entries in a bulk-add body
MaxBatches == 1      \* bulk-add requests
MaxExtra == 2        \* events logged for a device beyond those its limit keeps
MaxLogging == 2      \* logDeviceEvent calls of one device between insert and cleanup
MaxEventPosts == 3   \* POST /devices/events requests
MaxOpened == 3       \* EventSource objects one SSE client constructs
MaxClients == 2      \* SSEClient objects the App constructs
MaxHaLoads == 2      \* loadConfig calls in flight at once
MaxHaWrites == 2     \* writes of the Home Assistant configuration
MaxMinutes == 6      \* minutes the Home Assistant service's clock runs for
MaxRuns == 2         \* runs of the migration runner
MaxCategories == 2   \* rows the categories table ever receives beyond the seeded one

\* ------------------------------------------------------ program constants
MaxRetries == 5      \* "if (newRetries > 5)"
CleanupAge == 24     \* "Date.now() - 24 * 60 * 60 * 1000", in hours
InitialDelay == 1000 \* "this.reconnectDelay = 1000"
MaxDelay == 30000    \* "Math.min(this.reconnectDelay * 2, 30000)"
CacheMinutes == 5    \* "this.configCacheDuration = 5 * 60 * 1000"
KeepCount == 100     \* "await cleanupOldEvents(deviceId, 100)"
BulkMax == 50        \* "if (itemTexts.length > 50)"

\* SQL NULL / JS undefined, and a present value
Null == << >>
Some(x) == <<x>>

Names == {"milk", "eggs"}

\* What fetch() rejects with when the request cannot reach the server: a
\* TypeError whose message the browser chooses.
FetchFailures == {"Failed to fetch", "Load failed"}

\* The two messages the mutations classify as a network failure.
NetworkErrorMessages == {"NETWORK_TIMEOUT", "NETWORK_ERROR"}

VARIABLES
  items,            \* items table: id -> row
  nextItemId,       \* the serial of items.id
  now,              \* wall clock, in hours
  navOnline,        \* navigator.onLine
  isOnline,         \* queueManager.isOnline
  processing,       \* queueManager.processing
  store,            \* IndexedDB object store 'operation-queue': key -> record
  keyGen,           \* the store's key generator (autoIncrement)
  sweeps,           \* processQueue invocations past the guard, per trigger
  processingQueue,  \* App state processingQueue, as the SSE handler reads it
  cache,            \* react-query data of ['items']: id -> entry
  stale,            \* ['items'] invalidated (or refetch forced) and not yet refetched
  lastMutation,     \* the last mutationFn: what it was, how it ended, and how
                    \* far the queue has gone since (online again, swept)
  cleanupResult,    \* rows the last cleanupCompletedItems run deleted
  ollamaEnabled,    \* settings row ollama_enabled = 'true'
  devices,          \* devices table: set of rows
  deviceSeq,        \* the serial of devices.id
  tokenSeq,         \* auth tokens generated so far
  regInFlight,      \* registrations between their select and their insert
  lastRegister,     \* the last response of POST /devices/register
  barcodes,         \* barcodes table (the cache): set of rows
  pendingRows,      \* pending_barcodes table: rows per barcode
  scans,            \* POST /items/barcode requests in flight, per slot
  lookedUp,         \* barcodes a finished scan's product lookup has found
  lastScan,         \* the last response of POST /items/barcode
  categories,       \* categories table: set of rows
  catSeq,           \* the serial of categories.id
  lastCategory,     \* the last response of DELETE /categories/:id
  sseClients,       \* sseClients: the open /items/events connections
  sseSeq,           \* connections opened so far
  sseWrites,        \* item_added events written: <<connection id, item id>>
  sseStale,         \* ids of the connections whose res.write throws
  sseHeartbeats,    \* ids of the connections whose heartbeat interval is set
  lastEventPost,    \* the last POST /devices/events request and its response
  lastQueued,       \* the last queueOperation call that was rejected, and its key
  edits,            \* item id -> the categoryId PUT /items/:id wrote while its task ran
  classified,       \* the value last handed to both isBarcode functions, with
                    \* what each returned
  lastBulk,         \* the last response of POST /items/bulk-add, and how many
                    \* requests there have been
  deviceEvents,     \* device_events table: device id -> created_at of its rows, as
                    \* the position in the order the device's rows were inserted
  eventSeq,         \* device id -> position the device's next row gets
  logging,          \* device id -> logDeviceEvent calls past their insert and
                    \* before their cleanup
  tasks,            \* enrichment tasks started and not finished: item id -> task
  lastTask,         \* the enrichment task that ended last, and how
  dbTables,         \* the tables of the database
  ledgerRows,       \* __drizzle_migrations: the hashes recorded
  sqlApplied,       \* migrations whose SQL file has run to its end
  lastExit,         \* the exit code of the last migration run
  runs,             \* migration runs so far
  haConfigRow,      \* ha_config table: the configuration of its row, if any
  haSettings,       \* settings rows ha_url and ha_token: key -> value, if any
  haCache,          \* haService.config and haService.lastConfigLoad
  haLoads,          \* loadConfig calls in flight, per slot
  haClock,          \* Date.now(), in minutes
  haWrites,         \* Home Assistant configuration writes that have returned,
                    \* and the configuration the last one left
  lastHaCall,       \* the loadConfig call that ended last: what it returned and
                    \* how many writes had returned when it was called
  esCurrent,        \* SSEClient objects constructed; the last is sseClient.current
  esSource,         \* per client: eventSource and the readyState of that object
  esOpened,         \* per client: EventSource objects it has constructed
  esTimers,         \* per client: reconnect timers set and not yet fired
  esDelay,          \* per client: reconnectDelay
  esDisconnected    \* per client: disconnect() has been called

scanVars == <<ollamaEnabled, devices, deviceSeq, tokenSeq, regInFlight, lastRegister,
              barcodes, pendingRows, scans, lookedUp, lastScan>>
catVars == <<categories, catSeq, lastCategory>>
sseConns == <<sseClients, sseSeq>>
sseVars == <<sseConns, sseWrites>>
eventVars == <<deviceEvents, eventSeq, logging>>
dbVars == <<dbTables, ledgerRows, sqlApplied, lastExit, runs>>
haVars == <<haConfigRow, haSettings, haCache, haLoads, haClock, haWrites, lastHaCall>>
esVars == <<esCurrent, esSource, esOpened, esTimers, esDelay, esDisconnected>>
sseTimers == <<sseStale, sseHeartbeats>>
postVars == <<lastEventPost>>
queueVars == <<lastQueued, edits>>
extraVars == <<haVars, esVars, sseTimers, postVars, queueVars>>
moreVars == <<catVars, sseVars, tasks, classified, lastBulk, eventVars, dbVars, lastTask,
              extraVars>>
restOfBackend == <<now, cleanupResult, scanVars, moreVars>>
serverVars == <<items, nextItemId, restOfBackend>>
clientVars == <<navOnline, isOnline, processing, store, keyGen, sweeps,
                processingQueue, cache, stale, lastMutation>>
itemVars == <<items, nextItemId, now, cleanupResult, scanVars, catVars, sseVars, tasks,
              classified, lastBulk, eventVars, dbVars, lastTask>>
notHaVars == <<itemVars, clientVars, esVars, sseTimers, postVars, queueVars>>
notEsVars == <<itemVars, clientVars, haVars, sseTimers, postVars, queueVars>>
vars == <<items, nextItemId, now, navOnline, isOnline, processing, store, keyGen,
          sweeps, processingQueue, cache, stale, lastMutation, cleanupResult,
          ollamaEnabled, devices, deviceSeq, tokenSeq, regInFlight, lastRegister,
          barcodes, pendingRows, scans, lookedUp, lastScan, categories, catSeq,
          lastCategory, sseClients, sseSeq, sseWrites, tasks, classified,
          lastBulk, deviceEvents, eventSeq, logging, lastTask, dbTables,
          ledgerRows, sqlApplied, lastExit, runs, haConfigRow, haSettings, haCache,
          haLoads, haClock, haWrites, lastHaCall, esCurrent, esSource, esOpened,
          esTimers, esDelay, esDisconnected, sseStale, sseHeartbeats,
          lastEventPost, lastQueued, edits>>

\* ------------------------------------------------------------- isBarcode
\* A JavaScript value handed to isBarcode: a string, as the sequence of its
\* characters, or a value that is not a string.
Str(chars) == [type |-> "string", chars |-> chars]
NotAString == {[type |-> "undefined", chars |-> << >>], [type |-> "number", chars |-> << >>]}

\* \d of a regular expression without the u flag, and what trim() strips
Digits == {"0", "1", "2", "3", "4", "5", "6", "7", "8", "9"}
WhiteSpace == {" ", "\t"}

\* String.prototype.trim
RECURSIVE trimStart(_)
trimStart(chars) ==
  IF chars # << >> /\ Head(chars) \in WhiteSpace THEN trimStart(Tail(chars)) ELSE chars

RECURSIVE trimEnd(_)
trimEnd(chars) ==
  IF chars # << >> /\ chars[Len(chars)] \in WhiteSpace
  THEN trimEnd(SubSeq(chars, 1, Len(chars) - 1)) ELSE chars

trim(chars) == trimEnd(trimStart(chars))

\* /^\d{n}$/.test(chars)
digitsExactly(chars, n) == Len(chars) = n /\ \A i \in 1..Len(chars) : chars[i] \in Digits

\* the test with every length from 8 to 13 let through
barcodePattern_Range(cleaned) == \E n \in 8..13 : digitsExactly(cleaned, n)

\* /^\d{8}$|^\d{12}$|^\d{13}$/.test(cleaned)
barcodePattern(cleaned) ==
  digitsExactly(cleaned, 8) \/ digitsExactly(cleaned, 12) \/ digitsExactly(cleaned, 13)

\* isBarcode of services/barcode.js
isBarcode(input) ==
  IF input.type # "string" \/ input.chars = << >> THEN FALSE
  ELSE barcodePattern(trim(input.chars))

\* isBarcode of the add-item form
isBarcodeClient(input) ==
  IF input.chars = << >> \/ input.type # "string" THEN FALSE
  ELSE LET cleaned == trim(input.chars)
       IN \/ Len(cleaned) = 8 /\ \A i \in 1..8 : cleaned[i] \in Digits
          \/ Len(cleaned) = 12 /\ \A i \in 1..12 : cleaned[i] \in Digits
          \/ Len(cleaned) = 13 /\ \A i \in 1..13 : cleaned[i] \in Digits

\* The inputs classified: MaxLen or fewer characters, all the digit 7 but at
\* most one that is a letter, a dash or a blank, with or without a blank or
\* a tab before and after; and the values that are not strings.
Padding == {<< >>, <<" ">>, <<"\t">>}
Body(n, k, ch) == [i \in 1..n |-> IF i = k THEN ch ELSE "7"]
ClassifierInputs ==
  {Str(l \o Body(n, k, ch) \o r) :
     l \in Padding, r \in Padding, n \in 0..MaxLen, k \in 0..MaxLen, ch \in {"a", "-", " "}}
  \cup NotAString

\* the characters of the item names and barcodes of the model
Chars(name) ==
  CASE name = "50000001" -> <<"5", "0", "0", "0", "0", "0", "0", "1">>
    [] name = "99999999" -> <<"9", "9", "9", "9", "9", "9", "9", "9">>
    [] name = "milk" -> <<"m", "i", "l", "k">>
    [] name = "eggs" -> <<"e", "g", "g", "s">>

\* ------------------------------------------------------------ item routes

\* the users of the application, and the one the browser is logged in as
Users == {1, 2}
AppUser == 1

\* db.insert(items).values({...}).returning(): the row with the schema's
\* defaults for the columns not given
ItemValues(name, categoryId, isProcessing, barcode, addedBy) ==
  [name |-> name, isCompleted |-> FALSE, completedAt |-> Null,
   categoryId |-> categoryId, barcode |-> barcode,
   isProcessing |-> isProcessing, addedBy |-> addedBy]

\* the row POST /items inserts for the body {name} while Ollama is disabled
NewItemRow(name) == ItemValues(name, Null, FALSE, Null, Some(AppUser))

InsertItem(its, id, name) ==
  [i \in DOMAIN its \cup {id} |-> IF i = id THEN NewItemRow(name) ELSE its[i]]

\* the toggle writing the flag alone
ToggleRow_FlagOnly(row, t) == [row EXCEPT !.isCompleted = ~row.isCompleted]

\* PATCH /items/:id/complete: newStatus = !currentItem.isCompleted
ToggleRow(row, t) ==
  [row EXCEPT !.isCompleted = ~row.isCompleted,
              !.completedAt = IF ~row.isCompleted THEN Some(t) ELSE Null]

\* PUT /items/:id/complete: isCompleted from the body
SetCompleteRow(row, isCompleted, t) ==
  [row EXCEPT !.isCompleted = isCompleted,
              !.completedAt = IF isCompleted THEN Some(t) ELSE Null]

\* PUT /items/:id with a name in the body
UpdateRow(row, name) == [row EXCEPT !.name = name]

DeleteItem(its, id) == [i \in DOMAIN its \ {id} |-> its[i]]

\* ------------------------------------------------------------- ApiClient
\* A call of ApiClient.request as the caller sees it: `net` is "reached" when
\* fetch() got a response, else the message of the TypeError fetch() rejected
\* with. error = "" is a 2xx response; otherwise error is the message of the
\* Error thrown (the body's error field).  db / serial are the server's
\* table and serial after the call.
ApiOk(db, serial, id) == [error |-> "", db |-> db, serial |-> serial, id |-> id]
ApiErr(msg) == [error |-> msg, db |-> items, serial |-> nextItemId, id |-> 0]

NetOutcomes == IF navOnline THEN {"reached"} \cup FetchFailures ELSE FetchFailures

addItem(net, name) ==
  IF net # "reached" THEN ApiErr(net)
  ELSE ApiOk(InsertItem(items, nextItemId, name), nextItemId + 1, nextItemId)

toggleItemComplete(net, id) ==
  IF net # "reached" THEN ApiErr(net)
  ELSE IF id < 0 THEN ApiErr("Failed to toggle completion")  \* parseInt('temp-..') is NaN
  ELSE IF id \notin DOMAIN items THEN ApiErr("Item not found")
  ELSE ApiOk([items EXCEPT ![id] = ToggleRow(items[id], now)], nextItemId, id)

updateItem(net, id, name) ==
  IF net # "reached" THEN ApiErr(net)
  ELSE IF id < 0 THEN ApiErr("Failed to update item")
  ELSE IF id \notin DOMAIN items THEN ApiErr("Item not found")
  ELSE ApiOk([items EXCEPT ![id] = UpdateRow(items[id], name)], nextItemId, id)

deleteItem(net, id) ==
  IF net # "reached" THEN ApiErr(net)
  ELSE IF id < 0 THEN ApiErr("Failed to delete item")
  ELSE IF id \notin DOMAIN items THEN ApiErr("Item not found")
  ELSE ApiOk(DeleteItem(items, id), nextItemId, id)

\* ------------------------------------------------------ IndexedDB (db.js)
\* An operation as the mutations build it.  id is Null when the object has
\* no id property (type 'add').
Operation(type, id, data, targetState) ==
  [type |-> type, id |-> id, data |-> data, targetState |-> targetState]

\* addToQueue: store.add({...operation, timestamp, status:'pending', retries:0})
\* on a store with keyPath 'id' and autoIncrement.  A record that carries an
\* id is stored under it, and add() fails with a ConstraintError when that
\* key is taken; a record without one gets the generator's next key.  A
\* numeric key at or above the generator moves the generator past it.
addToQueueKey(op) == IF op.id = Null THEN keyGen ELSE op.id[1]

addToQueueFails(op) == addToQueueKey(op) \in DOMAIN store

addToQueue(op) ==
  LET k == addToQueueKey(op)
  IN [i \in DOMAIN store \cup {k} |->
        IF i = k
        THEN [id |-> k, type |-> op.type, data |-> op.data,
              targetState |-> op.targetState, status |-> "pending", retries |-> 0]
        ELSE store[i]]

addToQueueGen(op) ==
  LET k == addToQueueKey(op) IN IF k >= keyGen THEN k + 1 ELSE keyGen

\* removeFromQueue: store.delete(id), which succeeds whether or not the key exists
removeFromQueue(st, id) == [i \in DOMAIN st \ {id} |-> st[i]]

\* updateQueueItem: store.put({...item, ...updates}); rejects 'Item not found'
\* when no record has the key.
updateQueueItemFails(st, id) == id \notin DOMAIN st

updateQueueItem(st, id, status, retries) ==
  [st EXCEPT ![id].status = status, ![id].retries = retries]

\* getQueuedOperations: store.getAll(), in ascending key order
RECURSIVE KeysInOrder(_)
KeysInOrder(S) ==
  IF S = {} THEN << >>
  ELSE LET m == CHOOSE x \in S : \A y \in S : x <= y
       IN <<m>> \o KeysInOrder(S \ {m})

getQueuedOperations == [n \in 1..Cardinality(DOMAIN store) |->
                          store[KeysInOrder(DOMAIN store)[n]]]

\* -------------------------------------------------- QueueManager
\* The three callers of processQueue(): the 30 s interval, QueueManager's own
\* 'online' listener, and the App shell's handleOnline.
Triggers == {"timer", "online", "app"}

Idle == [pc |-> "idle", ops |-> << >>, idx |-> 0, processed |-> 0]
Started == [pc |-> "read", ops |-> << >>, idx |-> 0, processed |-> 0]

\* the guard without its single-flight half
processQueueReturnsEarly_OnlineOnly(online, busy) == ~online

\* "if (!this.isOnline || this.processing) return;"
processQueueReturnsEarly(online, busy) == ~online \/ busy

\* executeOperation: the switch on op.type
executeOperation(op, net) ==
  CASE op.type = "add" -> addItem(net, op.data[1])
    [] op.type = "update" -> updateItem(net, op.id, op.data[1])
    [] op.type = "toggle" -> toggleItemComplete(net, op.id)
    [] op.type = "delete" -> deleteItem(net, op.id)
    [] OTHER -> ApiErr("Unknown operation type")

\* operations.filter(op => op.status === 'pending')
pendingOps(ops) == SelectSeq(ops, LAMBDA op : op.status = "pending")

\* giving up one attempt early
statusAfterFailure_AtLimit(newRetries, status) ==
  IF newRetries >= MaxRetries THEN "failed" ELSE status

\* the status updateQueueItem is given in the catch block: 'failed' when
\* newRetries > 5, else the status is not among the updates
statusAfterFailure(newRetries, status) ==
  IF newRetries > MaxRetries THEN "failed" ELSE status

\* getQueueCount
getQueueCount == Len(pendingOps(getQueuedOperations))

\* The operations queueOperation is called with: the four shapes the App
\* shell's mutations build.
QueueableOps ==
  {Operation("add", Null, Some(n), Null) : n \in Names}
  \cup {Operation("update", Some(i), Some(n), Null) : i \in 1..MaxItems, n \in Names}
  \cup {Operation("setComplete", Some(i), Null, Some(b)) : i \in 1..MaxItems, b \in BOOLEAN}
  \cup {Operation("delete", Some(i), Null, Null) : i \in 1..MaxItems}

\* How far the queue has gone since the last mutation, when that mutation
\* was made offline: the browser came back online, a sweep read the queue
\* after that, and that sweep ran to its end.
PhaseAfter(from, to) ==
  IF lastMutation.phase = from THEN [lastMutation EXCEPT !.phase = to]
  ELSE lastMutation

NotQueued == [key |-> Null, rejected |-> FALSE]

\* queueManager.queueOperation(operation), the exported entry to the queue,
\* when "await addToQueue(operation)" resolves
queueOperation ==
  \E op \in QueueableOps :
    /\ ~addToQueueFails(op)
    /\ addToQueueKey(op) <= MaxQueueKey
    /\ store' = addToQueue(op)
    /\ keyGen' = addToQueueGen(op)
    /\ UNCHANGED <<serverVars, navOnline, isOnline, processing, sweeps,
                   processingQueue, cache, stale, lastMutation>>

\* queueOperation when addToQueue rejects: store.add on a key that is
\* taken; the rejection is the caller's and nothing is stored
queueOperationRejects ==
  \E op \in QueueableOps :
    /\ addToQueueFails(op)
    /\ lastQueued' = [key |-> Some(addToQueueKey(op)), rejected |-> TRUE]
    /\ UNCHANGED <<itemVars, haVars, esVars, sseTimers, postVars, edits, clientVars>>

\* setInterval callback: if (this.isOnline) this.processQueue()
TimerTick ==
  /\ isOnline
  /\ ~processQueueReturnsEarly(isOnline, processing)
  /\ sweeps["timer"].pc = "idle"
  /\ processing' = TRUE
  /\ sweeps' = [sweeps EXCEPT !["timer"] = Started]
  /\ UNCHANGED <<serverVars, navOnline, isOnline, store, keyGen,
                 processingQueue, cache, stale, lastMutation>>

\* The browser's 'online' event.  Listeners run in the order they were added:
\* QueueManager's (added when the module is imported), then the App shell's
\* handleOnline (added by an effect after mount).  Each runs processQueue()
\* up to its first await; handleOnline's continuation after an early return
\* runs before any other event is handled.
BrowserOnline ==
  /\ ~navOnline
  /\ navOnline' = TRUE
  /\ isOnline' = TRUE
  /\ LET qmStarts == ~processQueueReturnsEarly(TRUE, processing) /\ sweeps["online"].pc = "idle"
         busy == processing \/ qmStarts
         appStarts == ~processQueueReturnsEarly(TRUE, busy) /\ sweeps["app"].pc = "idle"
     IN /\ processing' = (busy \/ appStarts)
        /\ sweeps' = [c \in Triggers |->
                        IF (c = "online" /\ qmStarts) \/ (c = "app" /\ appStarts)
                        THEN Started ELSE sweeps[c]]
        \* setProcessingQueue(true); result = await processQueue();
        \* result undefined -> invalidateQueries; finally setProcessingQueue(false)
        /\ processingQueue' = appStarts
        /\ stale' = IF appStarts THEN stale ELSE TRUE
  /\ lastMutation' = PhaseAfter("offline", "online")
  /\ UNCHANGED <<serverVars, store, keyGen, cache>>

\* The browser's 'offline' event
BrowserOffline ==
  /\ navOnline
  /\ navOnline' = FALSE
  /\ isOnline' = FALSE
  /\ UNCHANGED <<serverVars, processing, store, keyGen, sweeps,
                 processingQueue, cache, stale, lastMutation>>

\* processQueue past the guard: operations = await getQueuedOperations();
\* pendingOps = the pending ones
SweepRead(c) ==
  /\ sweeps[c].pc = "read"
  /\ sweeps' = [sweeps EXCEPT ![c] = [pc |-> "exec", ops |-> pendingOps(getQueuedOperations),
                                      idx |-> 1, processed |-> 0]]
  /\ lastMutation' = PhaseAfter("online", "draining")
  /\ UNCHANGED <<serverVars, navOnline, isOnline, processing, store, keyGen,
                 processingQueue, cache, stale>>

\* getQueuedOperations rejects (initDB's or getAll's request.onerror):
\* processQueue rejects after "this.processing = true", and handleOnline's
\* finally resets processingQueue
SweepReadRejects(c) ==
  /\ sweeps[c].pc = "read"
  /\ sweeps' = [sweeps EXCEPT ![c] = Idle]
  /\ processingQueue' = IF c = "app" THEN FALSE ELSE processingQueue
  /\ UNCHANGED <<serverVars, navOnline, isOnline, processing, store, keyGen,
                 cache, stale, lastMutation>>

\* the store is one per origin: another tab of the App removes a record
\* its own sweep has replayed
OtherTabRemoves ==
  \E k \in DOMAIN store :
    /\ store' = removeFromQueue(store, k)
    /\ UNCHANGED <<serverVars, navOnline, isOnline, processing, keyGen, sweeps,
                   processingQueue, cache, stale, lastMutation>>

\* A server insert stays within the modelled id range.
WithinIds(op, net) == ~(op.type = "add" /\ net = "reached" /\ nextItemId > MaxItems)

\* One turn of "for (const op of pendingOps)": the API call, then
\* removeFromQueue on success, or updateQueueItem with the incremented retry
\* count in the catch block.  updateQueueItem rejecting leaves processQueue
\* rejected with this.processing still true.
SweepTurn(c) ==
  LET sw == sweeps[c]
      op == sw.ops[sw.idx]
  IN \E net \in NetOutcomes :
       /\ WithinIds(op, net)
       /\ LET r == executeOperation(op, net)
              newRetries == op.retries + 1
          IN /\ IF r.error = ""
                THEN /\ items' = r.db
                     /\ nextItemId' = r.serial
                     /\ store' = removeFromQueue(store, op.id)
                     /\ sweeps' = [sweeps EXCEPT ![c].idx = sw.idx + 1,
                                                 ![c].processed = sw.processed + 1]
                ELSE /\ UNCHANGED <<items, nextItemId>>
                     /\ IF updateQueueItemFails(store, op.id)
                        THEN /\ store' = store
                             /\ sweeps' = [sweeps EXCEPT ![c] = Idle]
                        ELSE /\ store' = updateQueueItem(store, op.id,
                                            statusAfterFailure(newRetries, op.status),
                                            newRetries)
                             /\ sweeps' = [sweeps EXCEPT ![c].idx = sw.idx + 1]
             \* handleOnline's finally when its processQueue() rejects
             /\ processingQueue' = IF /\ r.error # ""
                                      /\ updateQueueItemFails(store, op.id)
                                      /\ c = "app"
                                   THEN FALSE ELSE processingQueue
       /\ UNCHANGED <<restOfBackend, navOnline, isOnline, processing, keyGen,
                      cache, stale, lastMutation>>

\* After the loop: this.processing = false, and the result goes to the
\* caller.  handleOnline refetches (processed > 0) or invalidates, then
\* setProcessingQueue(false).
SweepReturn(c) ==
  /\ processing' = FALSE
  /\ sweeps' = [sweeps EXCEPT ![c] = Idle]
  /\ IF c = "app"
     THEN stale' = TRUE /\ processingQueue' = FALSE
     ELSE UNCHANGED <<stale, processingQueue>>
  /\ lastMutation' = PhaseAfter("draining", "replayed")
  /\ UNCHANGED <<serverVars, navOnline, isOnline, store, keyGen, cache>>

SweepLoop(c) ==
  /\ sweeps[c].pc = "exec"
  /\ IF sweeps[c].idx <= Len(sweeps[c].ops) THEN SweepTurn(c) ELSE SweepReturn(c)

\* ------------------------------------------------------------- App shell
\* An entry of the cached item list
Entry(name, isCompleted, isOptimistic, isPending) ==
  [name |-> name, isCompleted |-> isCompleted,
   isOptimistic |-> isOptimistic, isPending |-> isPending]

\* queryFn: api.getItems()
ServerView(its) ==
  [i \in DOMAIN its |-> Entry(its[i].name, its[i].isCompleted, FALSE, FALSE)]

Put(c, id, e) == [i \in DOMAIN c \cup {id} |-> IF i = id THEN e ELSE c[i]]
Drop(c, id) == [i \in DOMAIN c \ {id} |-> c[i]]

\* "error.message === 'NETWORK_TIMEOUT' || error.message === 'NETWORK_ERROR'"
isNetworkError(msg) == msg \in NetworkErrorMessages

\* `temp-${Date.now()}` ids, as negative numbers
TempIds == {-t : t \in 1..MaxTemp}

Mutation(type, id, target, error, ended) ==
  [type |-> type, id |-> id, target |-> target, error |-> error, ended |-> ended,
   phase |-> IF navOnline THEN "n/a" ELSE "offline"]

\* The catch block's network branch, common to the four mutations:
\* queueOperation(op), then the entry marked pending (pendingCache) and the
\* mutation resolved with isPending; queueOperation rejecting leaves the
\* optimistic cache and throws.
QueueOrThrow(type, id, target, error, op, optimisticCache, pendingCache) ==
  IF addToQueueFails(op)
  THEN /\ cache' = optimisticCache
       /\ lastMutation' = Mutation(type, id, target, "ConstraintError", "thrown")
       /\ UNCHANGED <<store, keyGen>>
  ELSE /\ addToQueueKey(op) <= MaxQueueKey
       /\ store' = addToQueue(op)
       /\ keyGen' = addToQueueGen(op)
       /\ cache' = pendingCache
       /\ lastMutation' = Mutation(type, id, target, error, "pending")

addItemMutation ==
  \E name \in Names, t \in TempIds \ DOMAIN cache, net \in NetOutcomes :
    LET optimistic == Put(cache, t, Entry(name, FALSE, TRUE, FALSE))
        r == addItem(net, name)
    IN /\ net = "reached" => nextItemId <= MaxItems
       /\ IF r.error = ""
          THEN /\ items' = r.db
               /\ nextItemId' = r.serial
               /\ cache' = Put(Drop(optimistic, t), r.id, Entry(name, FALSE, FALSE, FALSE))
               /\ stale' = TRUE
               /\ lastMutation' = Mutation("add", t, FALSE, "", "returned")
               /\ UNCHANGED <<store, keyGen>>
          ELSE /\ UNCHANGED <<items, nextItemId, stale>>
               /\ IF isNetworkError(r.error)
                  THEN QueueOrThrow("add", t, FALSE, r.error,
                                    Operation("add", Null, Some(name), Null), optimistic,
                                    [optimistic EXCEPT ![t].isPending = TRUE])
                  ELSE /\ cache' = Drop(optimistic, t)
                       /\ lastMutation' = Mutation("add", t, FALSE, r.error, "thrown")
                       /\ UNCHANGED <<store, keyGen>>
       /\ UNCHANGED <<restOfBackend, navOnline, isOnline, processing, sweeps, processingQueue>>

toggleCompleteMutation ==
  \E id \in DOMAIN cache, net \in NetOutcomes :
    LET targetCompletedState == ~cache[id].isCompleted
        optimistic == [cache EXCEPT ![id].isCompleted = targetCompletedState,
                                    ![id].isOptimistic = TRUE]
        r == toggleItemComplete(net, id)
    IN /\ IF r.error = ""
          THEN /\ items' = r.db
               /\ cache' = optimistic
               /\ stale' = TRUE
               /\ lastMutation' = Mutation("toggle", id, targetCompletedState, "", "returned")
               /\ UNCHANGED <<store, keyGen>>
          ELSE /\ UNCHANGED <<items, stale>>
               /\ IF isNetworkError(r.error)
                  THEN QueueOrThrow("toggle", id, targetCompletedState, r.error,
                                    Operation("setComplete", Some(id), Null,
                                              Some(targetCompletedState)), optimistic,
                                    [optimistic EXCEPT ![id].isPending = TRUE])
                  ELSE /\ cache' = [optimistic EXCEPT ![id].isCompleted = ~targetCompletedState,
                                                      ![id].isOptimistic = FALSE]
                       /\ lastMutation' = Mutation("toggle", id, targetCompletedState,
                                                   r.error, "thrown")
                       /\ UNCHANGED <<store, keyGen>>
       /\ UNCHANGED <<nextItemId, restOfBackend, navOnline, isOnline, processing, sweeps,
                      processingQueue>>

deleteItemMutation ==
  \E id \in DOMAIN cache, net \in NetOutcomes :
    LET previousItems == cache
        optimistic == Drop(cache, id)
        r == deleteItem(net, id)
    IN /\ IF r.error = ""
          THEN /\ items' = r.db
               /\ cache' = optimistic
               /\ stale' = TRUE
               /\ lastMutation' = Mutation("delete", id, FALSE, "", "returned")
               /\ UNCHANGED <<store, keyGen>>
          ELSE /\ UNCHANGED <<items, stale>>
               /\ IF isNetworkError(r.error)
                  THEN QueueOrThrow("delete", id, FALSE, r.error,
                                    Operation("delete", Some(id), Null, Null),
                                    optimistic, optimistic)
                  ELSE /\ cache' = previousItems
                       /\ lastMutation' = Mutation("delete", id, FALSE, r.error, "thrown")
                       /\ UNCHANGED <<store, keyGen>>
       /\ UNCHANGED <<nextItemId, restOfBackend, navOnline, isOnline, processing, sweeps,
                      processingQueue>>

updateItemMutation ==
  \E id \in DOMAIN cache, name \in Names, net \in NetOutcomes :
    LET previousItems == cache
        optimistic == [cache EXCEPT ![id].name = name, ![id].isOptimistic = TRUE]
        r == updateItem(net, id, name)
    IN /\ IF r.error = ""
          THEN /\ items' = r.db
               /\ cache' = optimistic
               /\ stale' = TRUE
               /\ lastMutation' = Mutation("update", id, FALSE, "", "returned")
               /\ UNCHANGED <<store, keyGen>>
          ELSE /\ UNCHANGED <<items, stale>>
               /\ IF isNetworkError(r.error)
                  THEN QueueOrThrow("update", id, FALSE, r.error,
                                    Operation("update", Some(id), Some(name), Null), optimistic,
                                    [optimistic EXCEPT ![id].isPending = TRUE])
                  ELSE /\ cache' = previousItems
                       /\ lastMutation' = Mutation("update", id, FALSE, r.error, "thrown")
                       /\ UNCHANGED <<store, keyGen>>
       /\ UNCHANGED <<nextItemId, restOfBackend, navOnline, isOnline, processing, sweeps,
                      processingQueue>>

\* SSE onMessage for item_added / item_updated / item_deleted / item_toggled
SseMessage ==
  /\ navOnline
  /\ IF processingQueue THEN UNCHANGED stale ELSE stale' = TRUE
  /\ UNCHANGED <<serverVars, navOnline, isOnline, processing, store, keyGen, sweeps,
                 processingQueue, cache, lastMutation>>

\* The ['items'] query refetching after an invalidation: queryFn api.getItems()
Refetch ==
  /\ stale
  /\ navOnline
  /\ cache' = ServerView(items)
  /\ stale' = FALSE
  /\ UNCHANGED <<serverVars, navOnline, isOnline, processing, store, keyGen, sweeps,
                 processingQueue, lastMutation>>

\* ------------------------------------------- item routes as requests
\* The handlers of an authenticated user's requests, each run to its
\* response.

PatchComplete ==
  \E id \in DOMAIN items :
    /\ items' = [items EXCEPT ![id] = ToggleRow(items[id], now)]
    /\ UNCHANGED <<nextItemId, restOfBackend, clientVars>>

PutComplete ==
  \E id \in DOMAIN items, isCompleted \in BOOLEAN :
    /\ items' = [items EXCEPT ![id] = SetCompleteRow(items[id], isCompleted, now)]
    /\ UNCHANGED <<nextItemId, restOfBackend, clientVars>>

PutItem ==
  \E id \in DOMAIN items, name \in Names :
    /\ items' = [items EXCEPT ![id] = UpdateRow(items[id], name)]
    /\ UNCHANGED <<nextItemId, restOfBackend, clientVars>>

DeleteItemRequest ==
  \E id \in DOMAIN items :
    /\ items' = DeleteItem(items, id)
    /\ UNCHANGED <<nextItemId, restOfBackend, clientVars>>

\* ------------------------------------------------------------ cleanup job
\* one hour passes
Tick ==
  /\ now < MaxNow
  /\ now' = now + 1
  /\ UNCHANGED <<items, nextItemId, cleanupResult, scanVars, clientVars, moreVars>>

\* the age test with the boundary hour included
cleanupDue_Inclusive(row, t) ==
  /\ row.isCompleted
  /\ row.completedAt # Null
  /\ row.completedAt[1] <= t - CleanupAge

\* the WHERE clause of the delete, at sweep time t: isCompleted = true AND
\* completedAt < t - 24h  (a NULL completedAt compares as unknown)
cleanupDue(row, t) ==
  /\ row.isCompleted
  /\ row.completedAt # Null
  /\ row.completedAt[1] < t - CleanupAge

cleanupCompletedItems ==
  LET due == {i \in DOMAIN items : cleanupDue(items[i], now)}
  IN /\ items' = [i \in DOMAIN items \ due |-> items[i]]
     /\ cleanupResult' = Some(Cardinality(due))
     /\ UNCHANGED <<nextItemId, now, scanVars, clientVars, moreVars>>

\* ------------------------------------------------------ real-time events
\* broadcastToUser / broadcastToAll with an item_added event of item itemId:
\* forEach over sseClients, one res.write per connection selected; a write
\* that throws is caught and the connection deleted from the set, and the
\* loop goes on with the next connection
broadcast_Uncaught(selected, itemId) ==
  LET thrown == {c \in selected : c.id \in sseStale}
      reached == {c \in selected : \A t \in thrown : c.id < t.id}
  IN [writes |-> sseWrites \cup {<<client.id, itemId>> : client \in reached},
      clients |-> sseClients]

broadcast(selected, itemId) ==
  [writes |-> sseWrites \cup {<<client.id, itemId>> :
                                client \in {c \in selected : c.id \notin sseStale}},
   clients |-> sseClients \ {c \in selected : c.id \in sseStale}]

broadcastToUser(userId, itemId) ==
  broadcast({client \in sseClients : client.userId = userId}, itemId)

broadcastToAll(itemId) == broadcast(sseClients, itemId)

\* GET /items/events with a user's token: the connection joins sseClients
\* and its heartbeat interval is set
SseConnect ==
  \E u \in Users :
    /\ sseSeq <= MaxConnections
    /\ sseClients' = sseClients \cup {[id |-> sseSeq, userId |-> u]}
    /\ sseHeartbeats' = sseHeartbeats \cup {sseSeq}
    /\ sseSeq' = sseSeq + 1
    /\ UNCHANGED <<items, nextItemId, now, cleanupResult, scanVars, catVars, sseWrites,
                   tasks, classified, lastBulk, eventVars, dbVars, lastTask, clientVars,
                   haVars, esVars, postVars, queueVars, sseStale>>

\* the socket of a connection breaks: from now on res.write throws
SseBreak ==
  \E client \in sseClients :
    /\ client.id \notin sseStale
    /\ sseStale' = sseStale \cup {client.id}
    /\ UNCHANGED <<itemVars, clientVars, haVars, esVars, postVars, queueVars,
                   sseHeartbeats>>

\* the heartbeat interval of connection id fires: a write that throws clears
\* the interval and deletes the connection
SseHeartbeat ==
  \E id \in sseHeartbeats :
    /\ id \in sseStale
    /\ sseHeartbeats' = sseHeartbeats \ {id}
    /\ sseClients' = {client \in sseClients : client.id # id}
    /\ UNCHANGED <<items, nextItemId, now, cleanupResult, scanVars, catVars, sseSeq,
                   sseWrites, tasks, classified, lastBulk, eventVars, dbVars, lastTask,
                   clientVars, haVars, esVars, postVars, queueVars, sseStale>>

\* req.on('close') of connection id: clearInterval(heartbeat) and
\* sseClients.delete(client)
SseClose ==
  \E id \in sseHeartbeats \cup {client.id : client \in sseClients} :
    /\ sseHeartbeats' = sseHeartbeats \ {id}
    /\ sseClients' = {client \in sseClients : client.id # id}
    /\ sseStale' = sseStale \ {id}
    /\ UNCHANGED <<items, nextItemId, now, cleanupResult, scanVars, catVars, sseSeq,
                   sseWrites, tasks, classified, lastBulk, eventVars, dbVars, lastTask,
                   clientVars, haVars, esVars, postVars, queueVars>>

\* ----------------------------------------------------------- device events
\* the devices.id values events are logged for, and how many rows the model
\* lets each of them insert
LogDevices == {1, 2}
EventCap(d) == IF d = 1 THEN KeepCount + MaxExtra ELSE MaxExtra

\* the subquery with one row more than the limit
keptEvents_OneMore(rows, keepCount) ==
  {e \in rows : Cardinality({f \in rows : f > e}) <= keepCount}

\* SELECT id FROM device_events WHERE device_id = .. ORDER BY created_at DESC
\* LIMIT keepCount, over the rows of the device
keptEvents(rows, keepCount) ==
  {e \in rows : Cardinality({f \in rows : f > e}) < keepCount}

\* logDeviceEvent up to the end of its insert
LogInsert(d) ==
  /\ logging[d] < MaxLogging
  /\ eventSeq[d] <= EventCap(d)
  /\ deviceEvents' = [deviceEvents EXCEPT ![d] = @ \cup {eventSeq[d]}]
  /\ eventSeq' = [eventSeq EXCEPT ![d] = @ + 1]
  /\ logging' = [logging EXCEPT ![d] = @ + 1]
  /\ UNCHANGED <<items, nextItemId, now, cleanupResult, scanVars, catVars, sseVars, tasks,
                 classified, lastBulk, lastTask, dbVars, clientVars, extraVars>>

\* cleanupOldEvents(deviceId, 100), after which logDeviceEvent returns:
\* DELETE .. WHERE device_id = .. AND id NOT IN (the rows kept)
LogCleanup(d) ==
  /\ logging[d] > 0
  /\ deviceEvents' = [deviceEvents EXCEPT ![d] = keptEvents(@, KeepCount)]
  /\ logging' = [logging EXCEPT ![d] = @ - 1]
  /\ UNCHANGED <<items, nextItemId, now, cleanupResult, scanVars, catVars, sseVars, tasks,
                 classified, lastBulk, eventSeq, lastTask, dbVars, clientVars, extraVars>>

\* ---------------------------------------------------------------- devices
DeviceIds == {"pi-kitchen", "pi-garage"}

\* generateAuthToken: crypto.randomBytes(32), a value not handed out before
Token(n) == <<"token", n>>

NoRegister == [code |-> 0, deviceId |-> "", token |-> Null, status |-> ""]

DeviceRows(deviceId) == {r \in devices : r.deviceId = deviceId}

approvalStatus(row) == IF row.isApproved THEN "approved" ELSE "pending_approval"

\* answering a registration from a row already there with a token made anew
registerExisting_NewToken(row) ==
  [code |-> 200, deviceId |-> row.deviceId, token |-> Some(Token(tokenSeq)),
   status |-> approvalStatus(row)]

\* "if (existingDevice) return res.json({auth_token: existingDevice.authToken, ...})"
registerExisting(row) ==
  [code |-> 200, deviceId |-> row.deviceId, token |-> Some(row.authToken),
   status |-> approvalStatus(row)]

\* POST /devices/register up to the end of its select: answered from the
\* existing row, or on its way to the insert
RegisterSelect ==
  \E d \in DeviceIds :
    /\ IF DeviceRows(d) # {}
       THEN /\ lastRegister' = registerExisting(CHOOSE r \in DeviceRows(d) : TRUE)
            /\ UNCHANGED regInFlight
       ELSE /\ regInFlight[d] < MaxInFlight
            /\ regInFlight' = [regInFlight EXCEPT ![d] = @ + 1]
            /\ UNCHANGED lastRegister
    /\ UNCHANGED <<items, nextItemId, now, cleanupResult, ollamaEnabled, devices,
                   deviceSeq, tokenSeq, barcodes, pendingRows, scans, lookedUp,
                   lastScan, clientVars, moreVars>>

\* the insert of a registration that found no row; device_id and auth_token
\* are unique columns, and a failed insert still consumes the serial
RegisterInsert ==
  \E d \in DeviceIds :
    /\ regInFlight[d] > 0
    /\ deviceSeq <= MaxDevices
    /\ regInFlight' = [regInFlight EXCEPT ![d] = @ - 1]
    /\ tokenSeq' = tokenSeq + 1
    /\ deviceSeq' = deviceSeq + 1
    /\ LET authToken == Token(tokenSeq)
       IN IF DeviceRows(d) # {} \/ \E r \in devices : r.authToken = authToken
          THEN /\ lastRegister' = [code |-> 500, deviceId |-> d, token |-> Null, status |-> ""]
               /\ UNCHANGED devices
          ELSE /\ devices' = devices \cup
                     {[id |-> deviceSeq, deviceId |-> d, authToken |-> authToken,
                       isApproved |-> FALSE, status |-> "pending"]}
               /\ lastRegister' = [code |-> 201, deviceId |-> d, token |-> Some(authToken),
                                   status |-> "pending_approval"]
    /\ UNCHANGED <<items, nextItemId, now, cleanupResult, ollamaEnabled, barcodes,
                   pendingRows, scans, lookedUp, lastScan, clientVars, moreVars>>

\* PATCH /devices/:id/approve with friendly_name and ha_speaker_entity given
ApproveDevice ==
  \E r \in devices :
    /\ devices' = (devices \ {r}) \cup {[r EXCEPT !.isApproved = TRUE, !.status = "approved"]}
    /\ UNCHANGED <<items, nextItemId, now, cleanupResult, ollamaEnabled, deviceSeq,
                   tokenSeq, regInFlight, lastRegister, barcodes, pendingRows, scans,
                   lookedUp, lastScan, clientVars, moreVars>>

\* DELETE /devices/:id
DeleteDevice ==
  \E r \in devices :
    /\ devices' = devices \ {r}
    /\ UNCHANGED <<items, nextItemId, now, cleanupResult, ollamaEnabled, deviceSeq,
                   tokenSeq, regInFlight, lastRegister, barcodes, pendingRows, scans,
                   lookedUp, lastScan, clientVars, moreVars>>

\* authenticateDeviceOptional on the Authorization header: 401 without a
\* Bearer header and for a token no row has, else next() with req.device
authenticateDeviceOptional(authorization) ==
  IF authorization = Null THEN [code |-> 401, device |-> Null]
  ELSE LET found == {r \in devices : r.authToken = authorization[1]}
       IN IF found = {} THEN [code |-> 401, device |-> Null]
          ELSE [code |-> 200, device |-> Some(CHOOSE r \in found : TRUE)]

NoEventPost ==
  [seq |-> 0, authorization |-> Null, device_id |-> Null, complete |-> FALSE, code |-> 0]

\* POST /devices/events behind authenticateDeviceOptional, with or without
\* an Authorization header, a device_id field and the type and message
\* fields (complete); logDeviceEvent as far as its insert, its cleanup
\* follows as LogCleanup
PostDeviceEvent ==
  \E authorization \in {Null} \cup {Some(Token(n)) : n \in 1..MaxDevices},
     device_id \in {Null} \cup {Some(d) : d \in DeviceIds}, complete \in BOOLEAN :
    /\ lastEventPost.seq < MaxEventPosts
    /\ LET auth == authenticateDeviceOptional(authorization)
           named == IF device_id = Null THEN {} ELSE DeviceRows(device_id[1])
           deviceDbId == IF auth.code # 200 THEN Null
                         ELSE IF ~complete THEN Null
                         ELSE IF auth.device # Null THEN Some(auth.device[1].id)
                         ELSE IF named # {} THEN Some((CHOOSE r \in named : TRUE).id)
                         ELSE Null
           code == IF auth.code # 200 THEN auth.code
                   ELSE IF ~complete THEN 400
                   ELSE IF auth.device # Null THEN 201
                   ELSE IF device_id = Null THEN 400
                   ELSE IF named = {} THEN 404
                   ELSE 201
       IN /\ lastEventPost' = [seq |-> lastEventPost.seq + 1, authorization |-> authorization,
                               device_id |-> device_id, complete |-> complete, code |-> code]
          /\ IF deviceDbId = Null
             THEN UNCHANGED <<deviceEvents, eventSeq, logging>>
             ELSE LET d == deviceDbId[1]
                  IN /\ logging[d] < MaxLogging
                     /\ deviceEvents' = [deviceEvents EXCEPT ![d] = @ \cup {eventSeq[d]}]
                     /\ eventSeq' = [eventSeq EXCEPT ![d] = @ + 1]
                     /\ logging' = [logging EXCEPT ![d] = @ + 1]
    /\ UNCHANGED <<items, nextItemId, now, cleanupResult, scanVars, catVars, sseVars, tasks,
                   classified, lastBulk, lastTask, dbVars, clientVars, haVars, esVars,
                   sseTimers, queueVars>>

\* authenticateDevice on "Authorization: Bearer <token>": 401 for a token no
\* row has, 403 for a row not approved, else next() with lastSeen / status
\* 'online' written
authenticateDevice(token) ==
  LET found == {r \in devices : r.authToken = token}
  IN IF found = {} THEN [code |-> 401, status |-> "", device |-> Null]
     ELSE LET device == CHOOSE r \in found : TRUE
          IN IF ~device.isApproved
             THEN [code |-> 403, status |-> "pending_approval", device |-> Null]
             ELSE [code |-> 200, status |-> "", device |-> Some(device)]

markOnline(device) == (devices \ {device}) \cup {[device EXCEPT !.status = "online"]}

\* ------------------------------------------------------ barcode resolution
Barcodes == {"50000001", "99999999"}

\* What the product database knows
Catalogue ==
  [b \in {"50000001"} |-> [brand |-> "Acme", productName |-> "Whole Milk", quantity |-> "1L"]]

\* the categories table after the migration runner's seeding, of which the
\* model keeps one row
DefaultCategories == {[id |-> 1, name |-> "Dairy"]}

NoCategoryResponse == [code |-> 0, id |-> 0]

toLowerCase(str) ==
  CASE str = "Dairy" -> "dairy"
    [] str = "Bakery" -> "bakery"
    [] OTHER -> str

\* fetchProduct: found with the product's fields, or found:false with an
\* error for a 404, another status, or a failed request
fetchProduct(barcode) ==
  (IF barcode \in DOMAIN Catalogue
   THEN {[found |-> TRUE, error |-> "",
          productName |-> Catalogue[barcode].productName,
          brand |-> Catalogue[barcode].brand,
          fullProductName |-> Catalogue[barcode].brand \o " " \o
                              Catalogue[barcode].productName \o " " \o
                              Catalogue[barcode].quantity]}
   ELSE {[found |-> FALSE, error |-> "Product not found in OpenFoodFacts database",
          productName |-> "", brand |-> "", fullProductName |-> ""]})
  \cup {[found |-> FALSE, error |-> "fetch failed",
         productName |-> "", brand |-> "", fullProductName |-> ""]}

\* processItem: null when Ollama is disabled or the normalization failed;
\* else the normalized name with the suggested category, which is null when
\* the suggestion failed
processItem(fullName) ==
  IF ~ollamaEnabled THEN {Null}
  ELSE {Null} \cup {Some([name |-> "milk", suggestedCategory |-> c]) :
                      c \in {Null, Some("dairy"), Some("Bakery")}}

\* allCategories.find(cat => cat.name.toLowerCase() === suggested.toLowerCase())?.id || null
matchedCategoryId(suggested) ==
  LET matched == {c \in categories : toLowerCase(c.name) = toLowerCase(suggested)}
  IN IF matched = {} THEN Null ELSE Some((CHOOSE c \in matched : TRUE).id)

ScanSlots == 1..MaxScans
RaceSlots == 1..MaxRace

IdleScan == [pc |-> "idle", barcode |-> "", again |-> FALSE, product |-> Null]

NoScan == [code |-> 0, status |-> "", barcode |-> "", item |-> Null,
           cacheHit |-> FALSE, again |-> FALSE]

ScanResponse(code, status, barcode, item, cacheHit, again) ==
  [code |-> code, status |-> status, barcode |-> barcode, item |-> item,
   cacheHit |-> cacheHit, again |-> again]

\* db.insert(items) of processBarcode, called with userId null
ScanItemRow(name, categoryId, barcode) ==
  ItemValues(name, categoryId, FALSE, Some(barcode), Null)

InsertScanItem(name, categoryId, barcode) ==
  [i \in DOMAIN items \cup {nextItemId} |->
     IF i = nextItemId THEN ScanItemRow(name, categoryId, barcode) ELSE items[i]]

InFlight == Cardinality({s \in DOMAIN scans : scans[s].pc # "idle"})

\* POST /items/barcode: authenticateDevice, then processBarcode up to its
\* first wait on the outside world.  A cache hit creates the item and
\* answers 201; a miss inserts the pending row and goes to fetchProduct.
PostBarcode(s) ==
  \E n \in 1..MaxDevices, barcode \in Barcodes :
    /\ scans[s].pc = "idle"
    /\ LET auth == authenticateDevice(Token(n))
           again == barcode \in lookedUp
           cached == {r \in barcodes : r.barcode = barcode}
       IN IF auth.code # 200
          THEN /\ lastScan' = ScanResponse(auth.code, auth.status, barcode, Null, FALSE, again)
               /\ UNCHANGED <<items, nextItemId, devices, pendingRows, scans, sseWrites,
                              sseClients>>
          ELSE /\ nextItemId + InFlight <= MaxScanned
               /\ devices' = markOnline(auth.device[1])
               /\ IF cached # {}
                  THEN LET cachedBarcode == CHOOSE r \in cached : TRUE
                       IN /\ items' = InsertScanItem(cachedBarcode.genericName,
                                                     cachedBarcode.categoryId, barcode)
                          /\ nextItemId' = nextItemId + 1
                          /\ lastScan' = ScanResponse(201, "", barcode, Some(nextItemId),
                                                      TRUE, again)
                          /\ sseWrites' = broadcastToAll(nextItemId).writes
                          /\ sseClients' = broadcastToAll(nextItemId).clients
                          /\ UNCHANGED <<pendingRows, scans>>
                  ELSE /\ pendingRows' = [pendingRows EXCEPT ![barcode] = @ + 1]
                       /\ scans' = [scans EXCEPT ![s] = [pc |-> "lookup", barcode |-> barcode,
                                                         again |-> again, product |-> Null]]
                       /\ UNCHANGED <<items, nextItemId, lastScan, sseWrites, sseClients>>
    /\ UNCHANGED <<now, cleanupResult, ollamaEnabled, deviceSeq, tokenSeq, regInFlight,
                   lastRegister, barcodes, lookedUp, clientVars, catVars,
                 sseSeq, tasks, classified, lastBulk, eventVars, dbVars, lastTask, extraVars>>

\* fetchProduct returns.  Not found: the item is created under the name
\* "Barcode: <code>", the pending rows of the barcode are deleted, 404.
ScanLookup(s) ==
  /\ scans[s].pc = "lookup"
  /\ \E productData \in fetchProduct(scans[s].barcode) :
       LET barcode == scans[s].barcode
       IN IF ~productData.found
          THEN /\ items' = InsertScanItem("Barcode: " \o barcode, Null, barcode)
               /\ nextItemId' = nextItemId + 1
               /\ pendingRows' = [pendingRows EXCEPT ![barcode] = 0]
               /\ lastScan' = ScanResponse(404, "", barcode, Some(nextItemId), FALSE,
                                           scans[s].again)
               /\ scans' = [scans EXCEPT ![s] = IdleScan]
          ELSE /\ scans' = [scans EXCEPT ![s].pc = "llm", ![s].product = Some(productData)]
               /\ UNCHANGED <<items, nextItemId, pendingRows, lastScan>>
  /\ UNCHANGED sseWrites
  /\ UNCHANGED <<now, cleanupResult, ollamaEnabled, devices, deviceSeq, tokenSeq,
                 regInFlight, lastRegister, barcodes, lookedUp, clientVars, catVars,
                 sseConns, tasks, classified, lastBulk, eventVars, dbVars, lastTask, extraVars>>

\* an insert into barcodes that the constraint never refuses
uniqueViolation_Never(barcode) == FALSE

\* "barcode: varchar('barcode', ..).notNull().unique()": the insert of a
\* second row with the barcode throws
uniqueViolation(barcode) == \E r \in barcodes : r.barcode = barcode

\* processItem returns; llmResult.suggestedCategory.toLowerCase() throws on
\* a null llmResult or a null suggestion, and the catch block deletes the
\* pending rows and rethrows into the route's 500.  Otherwise the cache row
\* (barcode unique), then the item, 201.
ScanResolve(s) ==
  /\ scans[s].pc = "llm"
  /\ \E llmResult \in processItem(scans[s].product[1].fullProductName) :
       LET barcode == scans[s].barcode
           productData == scans[s].product[1]
           throws == \/ llmResult = Null
                     \/ llmResult[1].suggestedCategory = Null
                     \/ uniqueViolation(barcode)
       IN /\ IF throws
             THEN /\ lastScan' = ScanResponse(500, "", barcode, Null, FALSE, scans[s].again)
                  /\ UNCHANGED <<items, nextItemId, barcodes, sseWrites, sseClients>>
             ELSE LET categoryId == matchedCategoryId(llmResult[1].suggestedCategory[1])
                  IN /\ barcodes' = barcodes \cup
                          {[barcode |-> barcode,
                            fullProductName |-> productData.fullProductName,
                            genericName |-> llmResult[1].name,
                            categoryId |-> categoryId]}
                     /\ items' = InsertScanItem(llmResult[1].name, categoryId, barcode)
                     /\ nextItemId' = nextItemId + 1
                     /\ lastScan' = ScanResponse(201, "", barcode, Some(nextItemId), FALSE,
                                                 scans[s].again)
                     /\ sseWrites' = broadcastToAll(nextItemId).writes
                     /\ sseClients' = broadcastToAll(nextItemId).clients
          /\ pendingRows' = [pendingRows EXCEPT ![barcode] = 0]
          /\ lookedUp' = lookedUp \cup {barcode}
          /\ scans' = [scans EXCEPT ![s] = IdleScan]
  /\ UNCHANGED <<now, cleanupResult, ollamaEnabled, devices, deviceSeq, tokenSeq,
                 regInFlight, lastRegister, clientVars, catVars,
                 sseSeq, tasks, classified, lastBulk, eventVars, dbVars, lastTask, extraVars>>

\* ------------------------------------------------------------- categories
\* a category name in a request body; "" is the empty string
CategoryInputs == {"", "Dairy", "Pantry"}

\* findOrCreateCategory: null for a falsy name, the id of the row of that
\* name, or the id of a row inserted for it
findOrCreateCategory(categoryName) ==
  LET found == {c \in categories : c.name = categoryName}
  IN IF categoryName = ""
     THEN [id |-> Null, rows |-> categories, serial |-> catSeq]
     ELSE IF found # {}
     THEN [id |-> Some((CHOOSE c \in found : TRUE).id), rows |-> categories,
           serial |-> catSeq]
     ELSE [id |-> Some(catSeq), rows |-> categories \cup {[id |-> catSeq, name |-> categoryName]},
           serial |-> catSeq + 1]

\* the cache rows with nothing written to them
recategorized_Untouched(rows, barcode, newCategoryId) == rows

\* db.update(barcodesTable).set({ categoryId: newCategoryId })
\*   .where(eq(barcodesTable.barcode, currentItem.barcode))
recategorized(rows, barcode, newCategoryId) ==
  {IF r.barcode = barcode THEN [r EXCEPT !.categoryId = newCategoryId] ELSE r : r \in rows}

\* PUT /items/:id with only a category in the body: the item's categoryId,
\* and for an item with a barcode whose category changes, the categoryId of
\* the cache row of that barcode
PutItemCategory ==
  \E id \in DOMAIN items, category \in CategoryInputs :
    LET currentItem == items[id]
        found == findOrCreateCategory(category)
        newCategoryId == found.id
    IN /\ found.serial <= MaxCategories + 2
       /\ categories' = found.rows
       /\ catSeq' = found.serial
       /\ items' = [items EXCEPT ![id].categoryId = newCategoryId]
       /\ IF currentItem.barcode # Null /\ newCategoryId # currentItem.categoryId
          THEN barcodes' = recategorized(barcodes, currentItem.barcode[1], newCategoryId)
          ELSE UNCHANGED barcodes
       /\ edits' = IF id \in DOMAIN tasks
                   THEN [i \in DOMAIN edits \cup {id} |->
                           IF i = id THEN newCategoryId ELSE edits[i]]
                   ELSE [i \in DOMAIN edits \ {id} |-> edits[i]]
       /\ UNCHANGED <<nextItemId, now, cleanupResult, ollamaEnabled, devices, deviceSeq,
                      tokenSeq, regInFlight, lastRegister, pendingRows, scans, lookedUp,
                      lastScan, lastCategory, sseVars, tasks, classified, lastBulk,
                      eventVars, dbVars, lastTask, clientVars, haVars, esVars, sseTimers,
                      postVars, lastQueued>>

\* the select of DELETE /categories/:id: items of that category
itemsWithCategory(id) == {i \in DOMAIN items : items[i].categoryId = Some(id)}

\* rows whose category_id foreign key (ON DELETE no action) holds the row of
\* the category in place
referencingRows(id) ==
  itemsWithCategory(id) \cup {r.barcode : r \in {c \in barcodes : c.categoryId = Some(id)}}

\* DELETE /categories/:id: 400 when an item uses the category; else the
\* delete, which the database refuses while a row references the category
\* (500), and which deletes nothing for an id no row has (404)
DeleteCategory(id) ==
  /\ IF itemsWithCategory(id) # {}
     THEN /\ lastCategory' = [code |-> 400, id |-> id]
          /\ UNCHANGED categories
     ELSE IF \A c \in categories : c.id # id
     THEN /\ lastCategory' = [code |-> 404, id |-> id]
          /\ UNCHANGED categories
     ELSE IF referencingRows(id) # {}
     THEN /\ lastCategory' = [code |-> 500, id |-> id]
          /\ UNCHANGED categories
     ELSE /\ lastCategory' = [code |-> 200, id |-> id]
          /\ categories' = {c \in categories : c.id # id}
  /\ UNCHANGED <<items, nextItemId, now, cleanupResult, scanVars, catSeq, sseVars, tasks,
                 classified, lastBulk, eventVars, dbVars, lastTask, clientVars, extraVars>>

\* ---------------------------------------------------- item creation routes
\* a category in a request body: absent, or one of CategoryInputs
BodyCategories == {Null} \cup {Some(c) : c \in CategoryInputs}

\* the names a user types: a product name or a barcode
ItemNames == {"milk", "50000001"}

\* an enrichment task as POST /items, /items/api-add and /items/bulk-add
\* start it: processBarcodeAsync(itemId, barcode, .., category) or
\* processItemAsync(itemId, name, .., category)
BarcodeTask(barcode, category) ==
  [kind |-> "barcode", pc |-> "start", text |-> barcode, category |-> category,
   product |-> Null]
ItemTask(name, category) ==
  [kind |-> "item", pc |-> "llm", text |-> name, category |-> category, product |-> Null]

StartTask(id, task) == [i \in DOMAIN tasks \cup {id} |-> IF i = id THEN task ELSE tasks[i]]

\* "category ? await findOrCreateCategory(category) : null"
categoryOfBody(category) ==
  findOrCreateCategory(IF category = Null THEN "" ELSE category[1])

\* POST /items of user u with the body {name, category, skipLlm}
PostItems(u, name, category, skipLlm) ==
  LET isBarcodeInput == isBarcode(Str(Chars(name)))
      shouldProcess == ollamaEnabled /\ (isBarcodeInput \/ ~skipLlm)
      found == categoryOfBody(category)
      newItem == ItemValues(name, found.id, shouldProcess,
                            IF isBarcodeInput THEN Some(name) ELSE Null, Some(u))
  IN /\ found.serial <= MaxCategories + 2
     /\ categories' = found.rows
     /\ catSeq' = found.serial
     /\ items' = [i \in DOMAIN items \cup {nextItemId} |->
                    IF i = nextItemId THEN newItem ELSE items[i]]
     /\ nextItemId' = nextItemId + 1
     /\ sseWrites' = broadcastToUser(u, nextItemId).writes
     /\ sseClients' = broadcastToUser(u, nextItemId).clients
     /\ tasks' = IF ~shouldProcess THEN tasks
                 ELSE IF isBarcodeInput
                 THEN StartTask(nextItemId, BarcodeTask(name, category))
                 ELSE StartTask(nextItemId, ItemTask(name, category))
     /\ UNCHANGED <<now, cleanupResult, scanVars, lastCategory, sseSeq, classified,
                    lastBulk, eventVars, dbVars, lastTask, clientVars, extraVars>>

\* the browser's user adds an item by name
PostItem ==
  \E name \in Names :
    /\ nextItemId <= MaxItems
    /\ PostItems(AppUser, name, Null, FALSE)

\* any user adds an item
PostItemUser ==
  \E u \in Users, name \in ItemNames, category \in BodyCategories, skipLlm \in BOOLEAN :
    /\ nextItemId <= MaxPosted
    /\ PostItems(u, name, category, skipLlm)

\* any user adds an item by name with skipLlm set
PostItemSkipLlm ==
  \E u \in Users :
    /\ nextItemId <= MaxPosted
    /\ PostItems(u, "milk", Null, TRUE)

\* POST /items/api-add with the body {name, category, skipLlm}, skipLlm set
ApiAdd ==
  \E name \in {"milk"}, category \in {Null, Some("Dairy")}, skipLlm \in {TRUE} :
    LET shouldProcess == ollamaEnabled /\ ~skipLlm
        found == categoryOfBody(category)
        newItem == ItemValues(name, found.id, shouldProcess, Null, Null)
    IN /\ nextItemId <= MaxPosted
       /\ found.serial <= MaxCategories + 2
       /\ categories' = found.rows
       /\ catSeq' = found.serial
       /\ items' = [i \in DOMAIN items \cup {nextItemId} |->
                      IF i = nextItemId THEN newItem ELSE items[i]]
       /\ nextItemId' = nextItemId + 1
       /\ sseWrites' = broadcastToAll(nextItemId).writes
       /\ sseClients' = broadcastToAll(nextItemId).clients
       /\ tasks' = IF shouldProcess THEN StartTask(nextItemId, ItemTask(name, category))
                   ELSE tasks
       /\ UNCHANGED <<now, cleanupResult, scanVars, lastCategory, sseSeq, classified,
                      lastBulk, eventVars, dbVars, lastTask, clientVars, extraVars>>

\* The body of POST /items/bulk-add: no array, or an array of which `valid`
\* entries are strings with something but white space in them and `other`
\* entries are blank strings or not strings.
BulkBodies ==
  {[isArray |-> FALSE, valid |-> 0, other |-> 0]} \cup
  {[isArray |-> TRUE, valid |-> v, other |-> w] : v \in 0..(BulkMax + 1), w \in 0..MaxBlank}

NoBulk == [seq |-> 0, code |-> 0, itemsAdded |-> 0, body |-> Null]

\* "if (itemTexts.length > 50)"
tooManyEntries(length) == length > BulkMax

\* itemTexts.filter(text => typeof text === 'string' && text.trim().length > 0).length
validItemTexts(body) == body.valid

\* POST /items/bulk-add of user u: 400 for a body without entries, with
\* more than 50 entries or with none left after filtering; else one row per
\* entry left, 201, and an enrichment task per row when Ollama is enabled
BulkAdd ==
  \E u \in Users, body \in BulkBodies :
    LET length == body.valid + body.other
        rejected == \/ ~body.isArray
                    \/ length = 0
                    \/ tooManyEntries(length)
                    \/ validItemTexts(body) = 0
        created == nextItemId .. (nextItemId + validItemTexts(body) - 1)
    IN /\ lastBulk.seq < MaxBatches
       /\ IF rejected
          THEN /\ lastBulk' = [seq |-> lastBulk.seq + 1, code |-> 400, itemsAdded |-> 0,
                               body |-> Some(body)]
               /\ UNCHANGED <<items, nextItemId, tasks>>
          ELSE /\ items' = [i \in DOMAIN items \cup created |->
                             IF i \in created
                             THEN ItemValues("milk", Null, ollamaEnabled, Null, Some(u))
                             ELSE items[i]]
               /\ nextItemId' = nextItemId + validItemTexts(body)
               /\ tasks' = IF ollamaEnabled
                           THEN [i \in DOMAIN tasks \cup created |->
                                   IF i \in created THEN ItemTask("milk", Null) ELSE tasks[i]]
                           ELSE tasks
               /\ lastBulk' = [seq |-> lastBulk.seq + 1, code |-> 201,
                               itemsAdded |-> validItemTexts(body), body |-> Some(body)]
       /\ UNCHANGED <<now, cleanupResult, scanVars, catVars, sseVars, classified,
                      eventVars, dbVars, lastTask, clientVars, extraVars>>

\* ------------------------------------------------------- enrichment tasks
NoTask == [id |-> 0, outcome |-> ""]

EndTask(id) == [i \in DOMAIN tasks \ {id} |-> tasks[i]]

\* the catch block's update with the flag left as it was
failedRow_StillProcessing(row) == row

\* db.update(items).set(..).where(eq(items.id, itemId)) changes the row of
\* the item if there still is one.  The update of the catch blocks: "Mark
\* as not processing even if failed"
failedRow(row) == [row EXCEPT !.isProcessing = FALSE]

\* the update of a task that went through
processedRow(row, name, categoryId) ==
  [row EXCEPT !.name = name, !.categoryId = categoryId, !.isProcessing = FALSE]

\* the update of a barcode task whose lookup found nothing
notFoundRow(row, barcode) ==
  [row EXCEPT !.name = "Barcode: " \o barcode, !.isProcessing = FALSE]

TaskEnded(id, outcome) == [id |-> id, outcome |-> outcome]

\* processBarcodeAsync reads the cache.  A hit gives the item the cached
\* name with the category of the form, if one was given, else of the cache
\* row, and touches only lastUsed of the cache row; a miss goes on to the
\* pending row.
TaskStart(id) ==
  /\ id \in DOMAIN tasks
  /\ tasks[id].kind = "barcode"
  /\ tasks[id].pc = "start"
  /\ LET barcode == tasks[id].text
         providedCategory == tasks[id].category
         cached == {r \in barcodes : r.barcode = barcode}
     IN IF cached # {}
        THEN LET cachedBarcode == CHOOSE r \in cached : TRUE
                 found == IF providedCategory # Null /\ providedCategory[1] # ""
                          THEN findOrCreateCategory(providedCategory[1])
                          ELSE [id |-> cachedBarcode.categoryId, rows |-> categories,
                                serial |-> catSeq]
             IN /\ found.serial <= MaxCategories + 2
                /\ categories' = found.rows
                /\ catSeq' = found.serial
                /\ items' = [i \in DOMAIN items |->
                               IF i = id THEN processedRow(items[i], cachedBarcode.genericName, found.id)
                               ELSE items[i]]
                /\ tasks' = EndTask(id)
                /\ lastTask' = TaskEnded(id, "returned")
        ELSE /\ tasks' = [tasks EXCEPT ![id].pc = "pending"]
             /\ UNCHANGED <<items, categories, catSeq, lastTask>>
  /\ UNCHANGED <<nextItemId, now, cleanupResult, scanVars, lastCategory, sseVars,
                 classified, lastBulk, eventVars, dbVars, clientVars, extraVars>>

\* "Add to pending": db.insert(pendingBarcodesTable), then fetchProduct is called
TaskPending(id) ==
  /\ id \in DOMAIN tasks
  /\ tasks[id].kind = "barcode"
  /\ tasks[id].pc = "pending"
  /\ pendingRows' = [pendingRows EXCEPT ![tasks[id].text] = @ + 1]
  /\ tasks' = [tasks EXCEPT ![id].pc = "lookup"]
  /\ UNCHANGED <<items, nextItemId, now, cleanupResult, ollamaEnabled, devices, deviceSeq,
                 tokenSeq, regInFlight, lastRegister, barcodes, scans, lookedUp, lastScan,
                 catVars, sseVars, classified, lastBulk, eventVars, dbVars, lastTask, clientVars, extraVars>>

\* fetchProduct returns to processBarcodeAsync.  Not found: the item is
\* renamed "Barcode: <code>" and the pending rows of the barcode deleted.
TaskLookup(id) ==
  /\ id \in DOMAIN tasks
  /\ tasks[id].kind = "barcode"
  /\ tasks[id].pc = "lookup"
  /\ \E productData \in fetchProduct(tasks[id].text) :
       LET barcode == tasks[id].text
       IN IF ~productData.found
          THEN /\ items' = [i \in DOMAIN items |->
                              IF i = id THEN notFoundRow(items[i], barcode)
                              ELSE items[i]]
               /\ pendingRows' = [pendingRows EXCEPT ![barcode] = 0]
               /\ tasks' = EndTask(id)
               /\ lastTask' = TaskEnded(id, "not found")
          ELSE /\ tasks' = [tasks EXCEPT ![id].pc = "llm", ![id].product = Some(productData)]
               /\ UNCHANGED <<items, pendingRows, lastTask>>
  /\ UNCHANGED <<nextItemId, now, cleanupResult, ollamaEnabled, devices, deviceSeq, tokenSeq,
                 regInFlight, lastRegister, barcodes, scans, lookedUp, lastScan,
                 catVars, sseVars, classified, lastBulk, eventVars, dbVars, clientVars, extraVars>>

\* processItem returns to processBarcodeAsync: the name and category of the
\* LLM, or without an LLM result the product's own name and no category;
\* then the cache row (barcode unique), the pending rows deleted and the
\* item updated.  A refused insert lands in the catch block, which only
\* clears isProcessing.
TaskResolve(id) ==
  /\ id \in DOMAIN tasks
  /\ tasks[id].kind = "barcode"
  /\ tasks[id].pc = "llm"
  /\ \E llmResult \in processItem(tasks[id].product[1].fullProductName) :
       LET barcode == tasks[id].text
           productData == tasks[id].product[1]
           suggested == IF llmResult # Null /\ llmResult[1].suggestedCategory # Null
                        THEN llmResult[1].suggestedCategory[1] ELSE ""
           categoryId == IF llmResult # Null THEN matchedCategoryId(suggested) ELSE Null
           genericName == IF llmResult # Null THEN llmResult[1].name
                          ELSE productData.productName
       IN IF \E r \in barcodes : r.barcode = barcode
          THEN /\ items' = [i \in DOMAIN items |->
                              IF i = id THEN failedRow(items[i])
                              ELSE items[i]]
               /\ lastTask' = TaskEnded(id, "threw")
               /\ UNCHANGED <<barcodes, pendingRows>>
          ELSE /\ barcodes' = barcodes \cup
                    {[barcode |-> barcode, fullProductName |-> productData.fullProductName,
                      genericName |-> genericName, categoryId |-> categoryId]}
               /\ pendingRows' = [pendingRows EXCEPT ![barcode] = 0]
               /\ items' = [i \in DOMAIN items |->
                              IF i = id THEN processedRow(items[i], genericName, categoryId)
                              ELSE items[i]]
               /\ lastTask' = TaskEnded(id, "returned")
  /\ tasks' = EndTask(id)
  /\ UNCHANGED <<nextItemId, now, cleanupResult, ollamaEnabled, devices, deviceSeq, tokenSeq,
                 regInFlight, lastRegister, scans, lookedUp, lastScan,
                 catVars, sseVars, classified, lastBulk, eventVars, dbVars, clientVars, extraVars>>

\* processItem returns to processItemAsync: without a result only
\* isProcessing is cleared; else the item gets the LLM's name and the
\* category of the form or, without one, the suggested category, created
\* when no row has that name
ItemTaskResolve(id) ==
  /\ id \in DOMAIN tasks
  /\ tasks[id].kind = "item"
  /\ \E processed \in processItem(tasks[id].text) :
       LET providedCategory == tasks[id].category
           categoryToUse ==
             IF providedCategory # Null /\ providedCategory[1] # "" THEN providedCategory[1]
             ELSE IF processed[1].suggestedCategory # Null
             THEN processed[1].suggestedCategory[1] ELSE ""
           found == findOrCreateCategory(categoryToUse)
       IN IF processed = Null
          THEN /\ items' = [i \in DOMAIN items |->
                              IF i = id THEN failedRow(items[i])
                              ELSE items[i]]
               /\ lastTask' = TaskEnded(id, "unprocessed")
               /\ UNCHANGED <<categories, catSeq>>
          ELSE /\ found.serial <= MaxCategories + 2
               /\ categories' = found.rows
               /\ catSeq' = found.serial
               /\ items' = [i \in DOMAIN items |->
                              IF i = id THEN processedRow(items[i], processed[1].name, found.id)
                              ELSE items[i]]
               /\ lastTask' = TaskEnded(id, "returned")
  /\ tasks' = EndTask(id)
  /\ UNCHANGED <<nextItemId, now, cleanupResult, scanVars, lastCategory, sseVars,
                 classified, lastBulk, eventVars, dbVars, clientVars, extraVars>>

\* PUT /settings/ollama {enabled}
PutOllama ==
  \E enabled \in BOOLEAN :
    /\ ollamaEnabled' = enabled
    /\ UNCHANGED <<items, nextItemId, now, cleanupResult, devices, deviceSeq, tokenSeq,
                   regInFlight, lastRegister, barcodes, pendingRows, scans, lookedUp,
                   lastScan, clientVars, moreVars>>

\* ------------------------------------------------------- migration runner
LedgerTable == "__drizzle_migrations"

\* listAvailableMigrations: the .sql files of ./drizzle, sorted
availableMigrations ==
  <<"0000_reflective_omega_sentinel", "0006_add_device_events",
    "0007_update_categories", "0008_add_category_icons">>

\* the tables a migration file creates (CREATE TABLE IF NOT EXISTS)
Creates(m) ==
  CASE m = "0000_reflective_omega_sentinel" ->
         {"api_keys", "barcodes", "categories", "items", "pending_barcodes", "users"}
    [] m = "0006_add_device_events" -> {"device_events", "settings"}
    [] OTHER -> {}

\* the tables a migration file's statements refer to without creating them
Needs(m) ==
  CASE m = "0000_reflective_omega_sentinel" -> {}
    [] m = "0006_add_device_events" -> {"devices"}
    [] OTHER -> {"categories"}

\* backend/db/migrations/003_add_device_tables.sql, which no file of
\* ./drizzle contains and which is run against the database by hand
DeviceTables == {"devices", "ha_config", "tts_phrases"}

tablesToCheck == {"users", "categories", "items", "devices", "device_events", "settings"}

Database(tables, applied, ledger) == [tables |-> tables, applied |-> applied, ledger |-> ledger]

\* One turn of the loop over pendingMigrations.  dbSql.unsafe(sqlContent)
\* runs the file as one statement batch: it throws, with nothing changed,
\* when a table it needs is missing or when m is in fails (any other
\* database error); the throw is caught and logged.  Then the INSERT INTO
\* __drizzle_migrations, whose throw (no such table, or m in unmarked) is
\* caught and logged too.
applyMigration(db, m, fails, unmarked) ==
  LET executed == m \notin fails /\ Needs(m) \subseteq db.tables
      marked == LedgerTable \in db.tables /\ m \notin unmarked
  IN Database(IF executed THEN db.tables \cup Creates(m) ELSE db.tables,
              IF executed THEN db.applied \cup {m} ELSE db.applied,
              IF marked THEN db.ledger \cup {m} ELSE db.ledger)

RECURSIVE applyMigrations(_, _, _, _)
applyMigrations(db, pending, fails, unmarked) ==
  IF pending = << >> THEN db
  ELSE applyMigrations(applyMigration(db, Head(pending), fails, unmarked), Tail(pending),
                       fails, unmarked)

\* getAppliedMigrations: the hashes of the ledger, [] when the select throws
getAppliedMigrations == IF LedgerTable \in dbTables THEN ledgerRows ELSE {}

pendingMigrations ==
  SelectSeq(availableMigrations, LAMBDA m : m \notin getAppliedMigrations)

Range(seq) == {seq[i] : i \in DOMAIN seq}

\* runMigration, from its start to process.exit: the pending migrations
\* applied in order; the six tables verified only when something was
\* pending, exit 1 when one is missing; else exit 0
runMigration ==
  /\ runs < MaxRuns
  /\ \E fails \in SUBSET Range(pendingMigrations), unmarked \in SUBSET Range(pendingMigrations) :
       LET db == applyMigrations(Database(dbTables, sqlApplied, ledgerRows),
                                 pendingMigrations, fails, unmarked)
           missingTables == tablesToCheck \ db.tables
       IN /\ dbTables' = db.tables
          /\ sqlApplied' = db.applied
          /\ ledgerRows' = db.ledger
          /\ lastExit' = IF pendingMigrations # << >> /\ missingTables # {}
                         THEN Some(1) ELSE Some(0)
  /\ runs' = runs + 1
  /\ UNCHANGED <<items, nextItemId, now, cleanupResult, scanVars, catVars, sseVars, tasks,
                 classified, lastBulk, eventVars, lastTask, clientVars, extraVars>>

\* 003_add_device_tables.sql is run against the database
ApplyDeviceTables ==
  /\ ~(DeviceTables \subseteq dbTables)
  /\ dbTables' = dbTables \cup DeviceTables
  /\ UNCHANGED <<items, nextItemId, now, cleanupResult, scanVars, catVars, sseVars, tasks,
                 classified, lastBulk, eventVars, lastTask, clientVars, ledgerRows,
                 sqlApplied, lastExit, runs, extraVars>>

\* --------------------------------------------------------- Home Assistant
\* the configurations an administrator saves: version v has url v and token v
HaConfigs == 1..MaxHaWrites

HaKeys == {"ha_url", "ha_token"}

HaSlots == 1..MaxHaLoads

NoHaCache == [config |-> Null, lastConfigLoad |-> Null]

IdleLoad == [pc |-> "idle", haUrl |-> Null, haToken |-> Null, writes |-> 0]

NoHaCall == [slot |-> 0, returned |-> Null, threw |-> FALSE, writes |-> 0]

HaConfig(haUrl, haToken) == [haUrl |-> haUrl, haToken |-> haToken]

\* getSetting(key): the value of the settings row, null without a row
getSetting(key) == haSettings[key]

\* "this.config && this.lastConfigLoad &&
\*  (Date.now() - this.lastConfigLoad < this.configCacheDuration)"
cacheValid ==
  /\ haCache.config # Null
  /\ haCache.lastConfigLoad # Null
  /\ haClock - haCache.lastConfigLoad[1] < CacheMinutes

\* clearCache()
clearCache == NoHaCache

\* a Home Assistant call enters loadConfig: the cached configuration at
\* once, or on to the first getSetting
LoadConfig(l) ==
  /\ haLoads[l].pc = "idle"
  /\ IF cacheValid
     THEN /\ lastHaCall' = [slot |-> l, returned |-> haCache.config, threw |-> FALSE,
                            writes |-> haWrites.seq]
          /\ UNCHANGED haLoads
     ELSE /\ haLoads' = [haLoads EXCEPT ![l] = [IdleLoad EXCEPT !.pc = "ha_url",
                                                             !.writes = haWrites.seq]]
          /\ UNCHANGED lastHaCall
  /\ UNCHANGED notHaVars
  /\ UNCHANGED <<haConfigRow, haSettings, haCache, haClock, haWrites>>

\* "const haUrl = await getSetting('ha_url')" returns
LoadUrl(l) ==
  /\ haLoads[l].pc = "ha_url"
  /\ haLoads' = [haLoads EXCEPT ![l].pc = "ha_token", ![l].haUrl = getSetting("ha_url")]
  /\ UNCHANGED notHaVars
  /\ UNCHANGED <<haConfigRow, haSettings, haCache, haClock, haWrites, lastHaCall>>

\* "const haToken = await getSetting('ha_token')" returns
LoadToken(l) ==
  /\ haLoads[l].pc = "ha_token"
  /\ haLoads' = [haLoads EXCEPT ![l].pc = "ha_tts_service",
                                ![l].haToken = getSetting("ha_token")]
  /\ UNCHANGED notHaVars
  /\ UNCHANGED <<haConfigRow, haSettings, haCache, haClock, haWrites, lastHaCall>>

\* the getSetting of the TTS service returns and loadConfig runs to its
\* end: 'Home Assistant not configured' thrown, or the configuration read
\* stored in the cache and returned
LoadStore(l) ==
  /\ haLoads[l].pc = "ha_tts_service"
  /\ IF haLoads[l].haUrl = Null \/ haLoads[l].haToken = Null
     THEN /\ lastHaCall' = [slot |-> l, returned |-> Null, threw |-> TRUE,
                            writes |-> haLoads[l].writes]
          /\ UNCHANGED haCache
     ELSE LET config == HaConfig(haLoads[l].haUrl[1], haLoads[l].haToken[1])
          IN /\ haCache' = [config |-> Some(config), lastConfigLoad |-> Some(haClock)]
             /\ lastHaCall' = [slot |-> l, returned |-> Some(config), threw |-> FALSE,
                               writes |-> haLoads[l].writes]
  /\ haLoads' = [haLoads EXCEPT ![l] = IdleLoad]
  /\ UNCHANGED notHaVars
  /\ UNCHANGED <<haConfigRow, haSettings, haClock, haWrites>>

\* PUT /settings/homeassistant {ha_url, ha_token}: the row of ha_config
\* updated or inserted, then haService.clearCache()
PutHomeAssistant ==
  \E v \in HaConfigs :
    /\ haWrites.seq < MaxHaWrites
    /\ haConfigRow' = Some(HaConfig(v, v))
    /\ haCache' = clearCache
    /\ haWrites' = [seq |-> haWrites.seq + 1, config |-> Some(HaConfig(v, v))]
    /\ UNCHANGED notHaVars
    /\ UNCHANGED <<haSettings, haLoads, haClock, lastHaCall>>

\* DELETE /settings/homeassistant: the rows of ha_config deleted, then
\* haService.clearCache()
DeleteHomeAssistant ==
  /\ haWrites.seq < MaxHaWrites
  /\ haConfigRow' = Null
  /\ haCache' = clearCache
  /\ haWrites' = [seq |-> haWrites.seq + 1, config |-> Null]
  /\ UNCHANGED notHaVars
  /\ UNCHANGED <<haSettings, haLoads, haClock, lastHaCall>>

\* The write of the settings rows ha_url and ha_token, which the spec's
\* Settings write path does: both rows upserted, then clearCache().
PutHaSettings ==
  \E v \in HaConfigs :
    /\ haWrites.seq < MaxHaWrites
    /\ haSettings' = [k \in HaKeys |-> Some(v)]
    /\ haCache' = clearCache
    /\ haWrites' = [seq |-> haWrites.seq + 1, config |-> Some(HaConfig(v, v))]
    /\ UNCHANGED notHaVars
    /\ UNCHANGED <<haConfigRow, haLoads, haClock, lastHaCall>>

\* a minute passes
HaTick ==
  /\ haClock < MaxMinutes
  /\ haClock' = haClock + 1
  /\ UNCHANGED notHaVars
  /\ UNCHANGED <<haConfigRow, haSettings, haCache, haLoads, haWrites, lastHaCall>>

\* -------------------------------------------------------------- SSEClient
\* the SSEClient objects the App's SSE effect constructs, one per run
EsClients == 1..MaxClients

NoEventSource == [object |-> Null, readyState |-> "none"]

Min(a, b) == IF a < b THEN a ELSE b

\* connect(token) of client c: "this.eventSource = new EventSource(url, ..)"
connect(c) == [object |-> Some(esOpened[c] + 1), readyState |-> "connecting"]

\* the App's SSE effect runs for the signed-in user, the cleanup of its
\* last run done: new SSEClient, connect
EsConnect ==
  /\ esCurrent < MaxClients
  /\ IF esCurrent = 0 THEN TRUE ELSE esDisconnected[esCurrent]
  /\ esCurrent' = esCurrent + 1
  /\ esSource' = [esSource EXCEPT ![esCurrent + 1] = connect(esCurrent + 1)]
  /\ esOpened' = [esOpened EXCEPT ![esCurrent + 1] = @ + 1]
  /\ UNCHANGED <<esTimers, esDelay, esDisconnected>>
  /\ UNCHANGED notEsVars

\* eventSource.onopen: the delay is reset
EsOpen(c) ==
  /\ esSource[c].readyState = "connecting"
  /\ esSource' = [esSource EXCEPT ![c].readyState = "open"]
  /\ esDelay' = [esDelay EXCEPT ![c] = InitialDelay]
  /\ UNCHANGED <<esCurrent, esOpened, esTimers, esDisconnected>>
  /\ UNCHANGED notEsVars

\* eventSource.onerror: the source closed, the reconnect timer set
EsError(c) ==
  /\ esSource[c].readyState \in {"connecting", "open"}
  /\ esSource' = [esSource EXCEPT ![c].readyState = "closed"]
  /\ esTimers' = [esTimers EXCEPT ![c] = @ + 1]
  /\ UNCHANGED <<esCurrent, esOpened, esDelay, esDisconnected>>
  /\ UNCHANGED notEsVars

\* the reconnect timer fires: the delay doubled, connect(this.token)
EsTimer(c) ==
  /\ esTimers[c] > 0
  /\ esOpened[c] < MaxOpened
  /\ esTimers' = [esTimers EXCEPT ![c] = @ - 1]
  /\ esDelay' = [esDelay EXCEPT ![c] = Min(@ * 2, MaxDelay)]
  /\ esSource' = [esSource EXCEPT ![c] = connect(c)]
  /\ esOpened' = [esOpened EXCEPT ![c] = @ + 1]
  /\ UNCHANGED <<esCurrent, esDisconnected>>
  /\ UNCHANGED notEsVars

\* the cleanup of the App's SSE effect: disconnect() of the client of the
\* run; the source, if there is one, closed and forgotten
EsDisconnect ==
  /\ esCurrent > 0
  /\ ~esDisconnected[esCurrent]
  /\ esSource' = [esSource EXCEPT ![esCurrent] = NoEventSource]
  /\ esDisconnected' = [esDisconnected EXCEPT ![esCurrent] = TRUE]
  /\ UNCHANGED <<esCurrent, esOpened, esTimers, esDelay>>
  /\ UNCHANGED notEsVars

\* ---------------------------------------------------------- specifications
InitExceptDevices ==
  /\ items = << >>
  /\ nextItemId = 1
  /\ now = 0
  /\ navOnline = TRUE
  /\ isOnline = TRUE
  /\ processing = FALSE
  /\ store = << >>
  /\ keyGen = 1
  /\ sweeps = [c \in Triggers |-> Idle]
  /\ processingQueue = FALSE
  /\ cache = << >>
  /\ stale = FALSE
  /\ lastMutation = [type |-> "none", id |-> 0, target |-> FALSE, error |-> "",
                     ended |-> "returned", phase |-> "n/a"]
  /\ cleanupResult = Null
  /\ ollamaEnabled = FALSE
  /\ regInFlight = [d \in DeviceIds |-> 0]
  /\ lastRegister = NoRegister
  /\ barcodes = {}
  /\ pendingRows = [b \in Barcodes |-> 0]
  /\ scans = [s \in RaceSlots |-> IdleScan]
  /\ lookedUp = {}
  /\ lastScan = NoScan
  /\ categories = DefaultCategories
  /\ catSeq = 2
  /\ lastCategory = NoCategoryResponse
  /\ sseClients = {}
  /\ sseSeq = 1
  /\ sseWrites = {}
  /\ sseStale = {}
  /\ sseHeartbeats = {}
  /\ lastEventPost = NoEventPost
  /\ lastQueued = NotQueued
  /\ edits = << >>
  /\ tasks = << >>
  /\ lastBulk = NoBulk
  /\ deviceEvents = [d \in LogDevices |-> {}]
  /\ eventSeq = [d \in LogDevices |-> 1]
  /\ logging = [d \in LogDevices |-> 0]
  /\ lastTask = NoTask
  /\ ledgerRows = {}
  /\ sqlApplied = {}
  /\ lastExit = Null
  /\ runs = 0
  /\ haConfigRow = Null
  /\ haSettings = [k \in HaKeys |-> Null]
  /\ haCache = NoHaCache
  /\ haLoads = [l \in HaSlots |-> IdleLoad]
  /\ haClock = 0
  /\ haWrites = [seq |-> 0, config |-> Null]
  /\ lastHaCall = NoHaCall
  /\ esCurrent = 0
  /\ esSource = [c \in EsClients |-> NoEventSource]
  /\ esOpened = [c \in EsClients |-> 0]
  /\ esTimers = [c \in EsClients |-> 0]
  /\ esDelay = [c \in EsClients |-> InitialDelay]
  /\ esDisconnected = [c \in EsClients |-> FALSE]

NotClassified == [input |-> Null, server |-> Null, client |-> Null]

\* a value about to be classified
InitClassify ==
  /\ InitExceptDevices
  /\ dbTables = {}
  /\ devices = {}
  /\ deviceSeq = 1
  /\ tokenSeq = 1
  /\ \E input \in ClassifierInputs :
       classified = [input |-> Some(input), server |-> Null, client |-> Null]

Init ==
  /\ classified = NotClassified
  /\ InitExceptDevices
  /\ dbTables = {}
  /\ devices = {}
  /\ deviceSeq = 1
  /\ tokenSeq = 1

\* one scanner registered and approved
InitApproved ==
  /\ classified = NotClassified
  /\ InitExceptDevices
  /\ dbTables = {}
  /\ devices = {[id |-> 1, deviceId |-> "pi-kitchen", authToken |-> Token(1),
                 isApproved |-> TRUE, status |-> "approved"]}
  /\ deviceSeq = 2
  /\ tokenSeq = 2

NextQueue ==
  \/ queueOperation
  \/ TimerTick
  \/ BrowserOnline
  \/ BrowserOffline
  \/ \E c \in Triggers : SweepRead(c)
  \/ \E c \in Triggers : SweepLoop(c)

SpecQueue == Init /\ [][NextQueue]_vars

NextItems ==
  \/ PostItem
  \/ PatchComplete
  \/ PutComplete
  \/ PutItem
  \/ DeleteItemRequest
  \/ Tick
  \/ cleanupCompletedItems

SpecItems == Init /\ [][NextItems]_vars

NextDevices ==
  \/ RegisterSelect
  \/ RegisterInsert
  \/ ApproveDevice
  \/ DeleteDevice

SpecDevices == Init /\ [][NextDevices]_vars

NextScan ==
  \/ RegisterSelect
  \/ RegisterInsert
  \/ ApproveDevice
  \/ DeleteDevice
  \/ PutOllama
  \/ \E s \in ScanSlots : PostBarcode(s)
  \/ \E s \in ScanSlots : ScanLookup(s)
  \/ \E s \in ScanSlots : ScanResolve(s)

SpecScan == Init /\ [][NextScan]_vars

NextApp ==
  \/ addItemMutation
  \/ toggleCompleteMutation
  \/ deleteItemMutation
  \/ updateItemMutation
  \/ SseMessage
  \/ Refetch
  \/ TimerTick
  \/ BrowserOnline
  \/ BrowserOffline
  \/ \E c \in Triggers : SweepRead(c)
  \/ \E c \in Triggers : SweepLoop(c)

SpecApp == Init /\ [][NextApp]_vars

\* a value is handed to isBarcode on the server (POST /items) and in the
\* add-item form
Classify ==
  LET input == classified.input[1]
  IN /\ classified.input # Null
     /\ classified.server = Null
     /\ classified' = [input |-> Some(input), server |-> Some(isBarcode(input)),
                       client |-> Some(isBarcodeClient(input))]
     /\ UNCHANGED <<items, nextItemId, now, cleanupResult, scanVars, catVars, sseVars,
                    tasks, lastBulk, eventVars, dbVars, lastTask, clientVars, extraVars>>

NextClassify == Classify

SpecClassify == InitClassify /\ [][NextClassify]_vars

\* Items added by users while Ollama is switched on and off, and the
\* enrichment tasks they start.
NextEnrich ==
  \/ PutOllama
  \/ PostItemUser
  \/ \E id \in 1..MaxPosted : TaskStart(id)
  \/ \E id \in 1..MaxPosted : TaskPending(id)
  \/ \E id \in 1..MaxPosted : TaskLookup(id)
  \/ \E id \in 1..MaxPosted : TaskResolve(id)
  \/ \E id \in 1..MaxPosted : ItemTaskResolve(id)

SpecEnrich == Init /\ [][NextEnrich]_vars

\* a database with or without the ledger table of an earlier Drizzle migrate
InitMigrate ==
  /\ classified = NotClassified
  /\ InitExceptDevices
  /\ devices = {}
  /\ deviceSeq = 1
  /\ tokenSeq = 1
  /\ dbTables \in {{}, {LedgerTable}}

\* The migration runner run again and again on one database.
NextMigrate ==
  \/ runMigration
  \/ ApplyDeviceTables

SpecMigrate == InitMigrate /\ [][NextMigrate]_vars

\* The Home Assistant service loading its configuration while the
\* configuration is written.
NextHa ==
  \/ \E l \in HaSlots : LoadConfig(l)
  \/ \E l \in HaSlots : LoadUrl(l)
  \/ \E l \in HaSlots : LoadToken(l)
  \/ \E l \in HaSlots : LoadStore(l)
  \/ PutHomeAssistant
  \/ DeleteHomeAssistant
  \/ PutHaSettings
  \/ HaTick

SpecHa == Init /\ [][NextHa]_vars

\* The SSEClients of the browser, from connect to after disconnect.
NextEs ==
  \/ EsConnect
  \/ \E c \in EsClients : EsOpen(c)
  \/ \E c \in EsClients : EsError(c)
  \/ \E c \in EsClients : EsTimer(c)
  \/ EsDisconnect

SpecEs == Init /\ [][NextEs]_vars

\* logDeviceEvent, called by the routes of the devices
NextEvents ==
  \/ \E d \in LogDevices : LogInsert(d)
  \/ \E d \in LogDevices : LogCleanup(d)

SpecEvents == Init /\ [][NextEvents]_vars

\* bulk-add requests on a fresh list
NextBulk == BulkAdd

SpecBulk == Init /\ [][NextBulk]_vars

\* Items entering the list through every route that creates them, with
\* the SSE connections that are told.
NextSse ==
  \/ SseConnect
  \/ SseClose
  \/ PutOllama
  \/ PostItemSkipLlm
  \/ ApiAdd
  \/ \E s \in ScanSlots : PostBarcode(s)
  \/ \E s \in ScanSlots : ScanLookup(s)
  \/ \E s \in ScanSlots : ScanResolve(s)

SpecSse == InitApproved /\ [][NextSse]_vars

\* Scanners registering and posting events to POST /devices/events.
NextDevicePosts ==
  \/ RegisterSelect
  \/ RegisterInsert
  \/ ApproveDevice
  \/ PostDeviceEvent
  \/ \E d \in LogDevices : LogCleanup(d)

SpecDevicePosts == Init /\ [][NextDevicePosts]_vars

\* Two requests of the approved scanner at the barcode endpoint at once.
NextRace ==
  \/ PutOllama
  \/ \E s \in RaceSlots : PostBarcode(s)
  \/ \E s \in RaceSlots : ScanLookup(s)
  \/ \E s \in RaceSlots : ScanResolve(s)

SpecRace == InitApproved /\ [][NextRace]_vars

\* The queue with an object store whose requests can fail and which other
\* tabs write to.
NextFaults ==
  \/ queueOperation
  \/ TimerTick
  \/ BrowserOnline
  \/ BrowserOffline
  \/ \E c \in Triggers : SweepRead(c)
  \/ \E c \in Triggers : SweepReadRejects(c)
  \/ \E c \in Triggers : SweepLoop(c)
  \/ OtherTabRemoves

SpecFaults == Init /\ [][NextFaults]_vars

\* Enrichment with the users' edits of the items it works on.
NextEdit ==
  \/ PutOllama
  \/ PostItemUser
  \/ PutItemCategory
  \/ \E id \in 1..MaxPosted : TaskStart(id)
  \/ \E id \in 1..MaxPosted : TaskPending(id)
  \/ \E id \in 1..MaxPosted : TaskLookup(id)
  \/ \E id \in 1..MaxPosted : TaskResolve(id)
  \/ \E id \in 1..MaxPosted : ItemTaskResolve(id)

SpecEdit == Init /\ [][NextEdit]_vars

\* Items from their creation to the cleanup sweep: completion toggled and
\* set, edits, and the enrichment tasks completing in between.
NextLifecycle ==
  \/ PutOllama
  \/ PostItem
  \/ PatchComplete
  \/ PutComplete
  \/ PutItem
  \/ PutItemCategory
  \/ Tick
  \/ cleanupCompletedItems
  \/ \E id \in 1..MaxPosted : ItemTaskResolve(id)

SpecLifecycle == Init /\ [][NextLifecycle]_vars

\* The queue with the calls of queueOperation that the store refuses.
NextQueueKeys ==
  \/ queueOperation
  \/ queueOperationRejects
  \/ TimerTick
  \/ BrowserOnline
  \/ BrowserOffline
  \/ \E c \in Triggers : SweepRead(c)
  \/ \E c \in Triggers : SweepLoop(c)

SpecQueueKeys == Init /\ [][NextQueueKeys]_vars

\* The /items/events connections through their whole life, sockets that
\* break included, with the requests of users and API keys that broadcast.
NextBroadcast ==
  \/ SseConnect
  \/ SseBreak
  \/ SseHeartbeat
  \/ SseClose
  \/ PostItemSkipLlm
  \/ ApiAdd

SpecBroadcast == Init /\ [][NextBroadcast]_vars

\* The scanner's barcode endpoint with what users do to the items it made
\* and to the categories.
NextCatalog ==
  \/ PutOllama
  \/ \E s \in ScanSlots : PostBarcode(s)
  \/ \E s \in ScanSlots : ScanLookup(s)
  \/ \E s \in ScanSlots : ScanResolve(s)
  \/ PutItemCategory
  \/ DeleteItemRequest
  \/ \E id \in 1..(MaxCategories + 1) : DeleteCategory(id)

SpecCatalog == InitApproved /\ [][NextCatalog]_vars

\* The queue together with what handleOnline and the SSE handler do to the
\* items query while it drains.
NextDrain ==
  \/ queueOperation
  \/ TimerTick
  \/ BrowserOnline
  \/ BrowserOffline
  \/ \E c \in Triggers : SweepRead(c)
  \/ \E c \in Triggers : SweepLoop(c)
  \/ SseMessage
  \/ Refetch

SpecDrain == Init /\ [][NextDrain]_vars

\* ------------------------------------------------------------------ claims

\* C1: an item toggled while offline ends, once the client is online again
\* and a sweep has run over the queue, with exactly the target completion
\* state captured at toggle time on the server, and its operation is no
\* longer waiting in the queue.
C1_OfflineToggleReplayed ==
  (/\ lastMutation.type = "toggle"
   /\ lastMutation.phase = "replayed"
   /\ lastMutation.id \in DOMAIN items)
  => /\ items[lastMutation.id].isCompleted = lastMutation.target
     /\ lastMutation.id \notin DOMAIN store

\* C3: coming back online with operations waiting does not invalidate the
\* items query in the same step (the refetch waits for the drain to end),
\* and an SSE event that arrives while the drain started by the online
\* event is in progress leaves the items query alone.
C3_DrainThenRefetch ==
  [][/\ (BrowserOnline /\ pendingOps(getQueuedOperations) # << >>) => (stale' = stale)
     /\ (SseMessage /\ sweeps["online"].pc # "idle") => (stale' = stale)]_vars

\* C4: at most one processQueue invocation is past the guard at any time,
\* whichever of the timer, the online listener and the App shell called it.
C4_SingleFlight ==
  Cardinality({c \in Triggers : sweeps[c].pc # "idle"}) <= 1

\* a sweep is in the middle of its loop, with an operation still to run,
\* while the client is online, so that the 30 s timer may fire now
C4_SweepInFlight ==
  /\ isOnline
  /\ processing
  /\ \E c \in Triggers : sweeps[c].pc = "exec" /\ sweeps[c].idx <= Len(sweeps[c].ops)

Shown(c) == [i \in DOMAIN c |-> <<c[i].name, c[i].isCompleted>>]

\* C5: a mutation whose API call fails for lack of network enqueues its
\* operation, keeps the optimistic entry and marks it pending; a mutation
\* whose call fails otherwise enqueues nothing, throws, and leaves the list
\* showing what it showed before.
C5_NetworkFailureQueues ==
  [][(lastMutation' # lastMutation /\ lastMutation'.phase \in {"n/a", "offline"})
     => LET m == lastMutation'
        IN /\ m.error \in FetchFailures
                => /\ m.ended = "pending"
                   /\ store' # store
                   /\ m.type # "delete" => cache'[m.id].isPending
           /\ m.error \notin FetchFailures \cup {""}
                => /\ m.ended = "thrown"
                   /\ store' = store
                   /\ Shown(cache') = Shown(cache)]_vars

\* C6 (state part): a record is marked failed exactly when its retry count
\* has passed 5.
C6_FailedIffExhausted ==
  \A k \in DOMAIN store : (store[k].status = "failed") <=> (store[k].retries > MaxRetries)

\* C6 (one loop turn): a successful replay deletes the record, a failed one
\* leaves it with its retry count one higher.
C6_Turn ==
  \A c \in Triggers :
    (/\ sweeps[c].pc = "exec"
     /\ sweeps[c].idx <= Len(sweeps[c].ops)
     /\ sweeps'[c].pc = "exec"
     /\ sweeps'[c].idx = sweeps[c].idx + 1)
    => LET op == sweeps[c].ops[sweeps[c].idx]
       IN IF sweeps'[c].processed = sweeps[c].processed + 1
          THEN op.id \notin DOMAIN store'
          ELSE /\ op.id \in DOMAIN store'
               /\ store'[op.id].retries = store[op.id].retries + 1

\* C6 (terminal): a failed record is neither retried nor deleted.
C6_FailedStays ==
  \A k \in DOMAIN store :
    store[k].status = "failed" => (k \in DOMAIN store' /\ store'[k] = store[k])

\* C6: replay success deletes the record; each failure adds one to retries;
\* the record is failed exactly once retries exceeds 5, and from then on it
\* is left as it is.
C6_RetriesThenFailed ==
  []C6_FailedIffExhausted /\ [][C6_Turn /\ C6_FailedStays]_vars

\* a record has failed for good and a later sweep has read the queue
\* without picking it up
C6_FailedSkipped ==
  /\ \E k \in DOMAIN store : store[k].status = "failed" /\ store[k].retries = MaxRetries + 1
  /\ \E c \in Triggers : sweeps[c].pc = "exec" /\ sweeps[c].ops = << >>

\* C2: a scan of a barcode that starts after an earlier scan of the same
\* barcode has finished (one whose product lookup found the product) is
\* resolved from the cache, without a product lookup of its own, and the
\* cache holds exactly one row for the barcode.
C2_SecondScanFromCache ==
  (lastScan.again /\ lastScan.code \notin {401, 403})
  => /\ lastScan.cacheHit
     /\ Cardinality({r \in barcodes : r.barcode = lastScan.barcode}) = 1

\* C7: a barcode request answered 403 (pending_approval) creates no item,
\* and a barcode request that passes device authentication, the device
\* having been approved, is answered with an item it has created.
C7_ApprovalGatesScans ==
  [][lastScan' # lastScan
     => /\ lastScan'.code = 403
             => (lastScan'.status = "pending_approval" /\ items' = items)
        /\ lastScan'.code \notin {401, 403}
             => /\ lastScan'.item # Null
                /\ lastScan'.item[1] \in DOMAIN items' \ DOMAIN items]_vars

\* C8 (state part): no two device rows share a deviceId.
C8_OneRowPerDevice ==
  \A r1 \in devices, r2 \in devices : r1.deviceId = r2.deviceId => r1 = r2

\* C8 (one response): a registration answered with a token is answered with
\* the token stored in the row of that deviceId, and when the row was
\* already there the table is left as it was.
C8_RegisterAnswer ==
  \A d \in DeviceIds :
    (/\ lastRegister' # lastRegister
     /\ lastRegister'.deviceId = d
     /\ lastRegister'.code \in {200, 201})
    => /\ \E r \in devices' : r.deviceId = d /\ lastRegister'.token = Some(r.authToken)
       /\ DeviceRows(d) # {} => devices' = devices

\* C8 (the row): a device row keeps its deviceId and its authToken.
C8_TokenKept ==
  \A r \in devices : \A r2 \in devices' :
    r2.id = r.id => (r2.authToken = r.authToken /\ r2.deviceId = r.deviceId)

C9_CleanupExactly ==
  [][cleanupCompletedItems
     => \A i \in DOMAIN items :
          (i \notin DOMAIN items')
          <=> (/\ items[i].isCompleted
               /\ items[i].completedAt # Null
               /\ now - items[i].completedAt[1] > CleanupAge)]_vars

\* a sweep has deleted an item
C9_SweepDeleted ==
  cleanupResult # Null /\ cleanupResult[1] >= 1

\* C10: completedAt is set when isCompleted goes from false to true,
\* cleared when it goes from true to false, and left as it is by a request
\* that leaves isCompleted as it is.
C10_CompletedAtFollowsTransitions ==
  [][\A i \in DOMAIN items \cap DOMAIN items' :
       LET before == items[i]
           after == items'[i]
       IN /\ (~before.isCompleted /\ after.isCompleted) => after.completedAt = Some(now)
          /\ (before.isCompleted /\ ~after.isCompleted) => after.completedAt = Null
          /\ (before.isCompleted = after.isCompleted)
                => after.completedAt = before.completedAt]_vars

\* C11: DELETE /categories/:id on a category that an item references is
\* refused with the conflict response (400) and leaves the category in
\* place; on a category no item references it answers 200 and the category
\* is gone.
C11_CategoryDeletion ==
  [][\A id \in 1..(MaxCategories + 1) :
       (DeleteCategory(id) /\ \E c \in categories : c.id = id)
         => IF itemsWithCategory(id) # {}
            THEN /\ lastCategory'.code = 400
                 /\ categories' = categories
            ELSE /\ lastCategory'.code = 200
                 /\ \A c \in categories' : c.id # id]_vars

\* chars is white space, then 8, 12 or 13 digits at from..to, then white space
C18_DigitRun(chars, from, to) ==
  /\ \A i \in 1..Len(chars) :
       IF i < from \/ i > to THEN chars[i] \in WhiteSpace ELSE chars[i] \in Digits
  /\ to - from + 1 \in {8, 12, 13}

C18_LooksLikeBarcode(input) ==
  /\ input.type = "string"
  /\ \E from \in 1..Len(input.chars), to \in 1..Len(input.chars) :
       C18_DigitRun(input.chars, from, to)

C12_WrittenTo(writes, id) == {w[1] : w \in {x \in writes : x[2] = id}}

\* C12: an Item created by a user's request produces an item_added event
\* written to exactly the open connections of that user; an Item created
\* through the device barcode endpoint or the API-key endpoint produces one
\* written to every open connection.
C12_ItemAddedDelivery ==
  [][\A id \in DOMAIN items' \ DOMAIN items :
       C12_WrittenTo(sseWrites', id) =
         IF items'[id].addedBy # Null
         THEN {c.id : c \in {k \in sseClients : k.userId = items'[id].addedBy[1]}}
         ELSE {c.id : c \in sseClients}]_vars

\* C14: POST /items/bulk-add rejects the request and creates no Item exactly
\* when the entries left after filtering out the blank and non-string ones
\* number 0 or more than 50; otherwise it creates one Item per entry left.
C14_BulkAddLimits ==
  [][BulkAdd =>
       LET body == lastBulk'.body[1]
           left == IF body.isArray THEN body.valid ELSE 0
       IN IF left = 0 \/ left > BulkMax
          THEN lastBulk'.code = 400 /\ items' = items
          ELSE /\ lastBulk'.code = 201
               /\ Cardinality(DOMAIN items' \ DOMAIN items) = left]_vars

\* C13: when logDeviceEvent completes for a device, the device has at most
\* 100 DeviceEvent rows, they are the most recently created of the rows it
\* had, and no other device's rows are touched; a 101st event leaves 100.
C13_KeepsLatestHundred ==
  [][\A d \in LogDevices :
       LogCleanup(d) =>
         LET before == deviceEvents[d]
             after == deviceEvents'[d]
         IN /\ after \subseteq before
            /\ Cardinality(after) =
                 IF Cardinality(before) < 100 THEN Cardinality(before) ELSE 100
            /\ \A kept \in after, gone \in before \ after : gone < kept
            /\ \A other \in LogDevices \ {d} : deviceEvents'[other] = deviceEvents[other]]_vars

\* the 101st event of device 1 has been logged and its call has completed
C13_HundredAndFirstLogged ==
  /\ eventSeq[1] = 102
  /\ logging[1] = 0
  /\ Cardinality(deviceEvents[1]) = 100
  /\ 1 \notin deviceEvents[1]
  /\ deviceEvents[2] # {}

\* ---------------------------------------------------------------- C15
Resolving(barcode) ==
  \/ \E id \in DOMAIN tasks :
       tasks[id].kind = "barcode" /\ tasks[id].text = barcode /\ tasks[id].pc # "start"
  \/ \E s \in DOMAIN scans : scans[s].pc # "idle" /\ scans[s].barcode = barcode

\* C15: a PendingBarcode row of a barcode exists only while a resolution of
\* that barcode is in flight; when the resolutions have finished, by a
\* cache row, a failed lookup or an exception, no pending row is left
C15_PendingOnlyInFlight ==
  \A barcode \in DOMAIN pendingRows : pendingRows[barcode] > 0 => Resolving(barcode)

\* ---------------------------------------------------------------- C16
TaskEnds(id) == id \in DOMAIN tasks /\ id \notin DOMAIN tasks'

C19_OverridePersisted ==
  [][\A id \in DOMAIN tasks :
       (/\ TaskEnds(id)
        /\ tasks[id].kind = "barcode"
        /\ tasks[id].pc = "start"
        /\ tasks[id].category # Null
        /\ tasks[id].category[1] # "") =>
         /\ items'[id].categoryId # Null
         /\ \E c \in categories' : c.id = items'[id].categoryId[1]
                                   /\ c.name = tasks[id].category[1]
         /\ \A r \in barcodes' : r.barcode = tasks[id].text =>
                                   r.categoryId = items'[id].categoryId]_vars

\* ---------------------------------------------------------------- C20
\* C20: when PUT /items/:id changes the category of an item that has a
\* barcode, the cache row of that barcode gets the new category, and a scan
\* that finds the cache row creates its item with the row's category
C20_RecategorizationInherited ==
  [][/\ \A id \in DOMAIN items :
          (/\ id \in DOMAIN items'
           /\ items[id].barcode # Null
           /\ items'[id].categoryId # items[id].categoryId) =>
            \A r \in barcodes' : r.barcode = items[id].barcode[1] =>
                                  r.categoryId = items'[id].categoryId
     /\ (lastScan'.cacheHit /\ nextItemId' # nextItemId) =>
          \A r \in barcodes : r.barcode = lastScan'.barcode =>
                               items'[lastScan'.item[1]].categoryId = r.categoryId]_vars

\* a scan created its item under the category "Pantry", which only a PUT
\* can have put on the cache row
C20_ScannedIntoPantry ==
  /\ lastScan.cacheHit
  /\ lastScan.item # Null
  /\ lastScan.item[1] \in DOMAIN items
  /\ \E c \in categories : c.name = "Pantry" /\ items[lastScan.item[1]].categoryId = Some(c.id)
  /\ \E r \in barcodes : r.barcode = lastScan.barcode
                         /\ r.categoryId = items[lastScan.item[1]].categoryId

\* ---------------------------------------------------------------- C17
\* C17: the migration runner never exits 0 while one of the tables the
\* application requires is missing or the SQL of one of the migrations has
\* not been applied; a migration error makes it exit non-zero
C17_ExitZeroMeansMigrated ==
  lastExit = Some(0) =>
    /\ tablesToCheck \subseteq dbTables
    /\ Range(availableMigrations) \subseteq sqlApplied

\* ---------------------------------------------------------------- C21
\* C21: when the product lookup of an uncached barcode has succeeded and the
\* LLM is disabled, the resolution completes: the cache row is written with
\* the product's own name and no category, the item is created and the
\* answer is 201
C21_FallbackWithoutLlm ==
  [][\A s \in ScanSlots :
       (/\ scans[s].pc = "llm"
        /\ scans'[s].pc = "idle"
        /\ ~ollamaEnabled
        /\ ~\E r \in barcodes : r.barcode = scans[s].barcode) =>
         /\ lastScan'.code = 201
         /\ nextItemId' = nextItemId + 1
         /\ \E r \in barcodes' : /\ r.barcode = scans[s].barcode
                                /\ r.genericName = scans[s].product[1].productName
                                /\ r.categoryId = Null]_vars

\* ---------------------------------------------------------------- C22
\* C22: a Home Assistant call made after a write of the configuration has
\* returned, with no write since, uses the configuration that write left --
\* none after a delete -- also when a load was in flight at clearCache()
C22_UsesWrittenConfig ==
  [](\/ lastHaCall.slot = 0
     \/ lastHaCall.writes = 0
     \/ lastHaCall.writes # haWrites.seq
     \/ /\ lastHaCall.returned = haWrites.config
        /\ lastHaCall.threw = (haWrites.config = Null))

\* ---------------------------------------------------------------- C23
\* C23: once disconnect() has been called the client opens no new
\* EventSource, also when a reconnect was scheduled before by an error
C23_NoReconnectAfterDisconnect ==
  [][\A c \in EsClients : esDisconnected[c] => esOpened'[c] = esOpened[c]]_vars


\* the connections the broadcast of the item_added event of item id selects
C24_Selected(id) ==
  IF items'[id].addedBy # Null
  THEN {client \in sseClients : client.userId = items'[id].addedBy[1]}
  ELSE sseClients

\* C24: in a broadcast, a connection whose write throws is removed from
\* sseClients and every other connection the broadcast selects stays in the
\* set and is written the event; the close of a connection removes it from
\* sseClients and clears its heartbeat interval.
C24_StalePrunedOthersServed ==
  [][(\A id \in DOMAIN items' \ DOMAIN items :
        /\ \A client \in C24_Selected(id) :
             IF client.id \in sseStale
             THEN client \notin sseClients'
             ELSE client \in sseClients' /\ <<client.id, id>> \in sseWrites'
        /\ (sseClients \ C24_Selected(id)) \subseteq sseClients')
     /\ (SseClose => \E conn \in sseHeartbeats \cup {client.id : client \in sseClients} :
                       /\ conn \notin sseHeartbeats'
                       /\ conn \notin {client.id : client \in sseClients'})]_vars

\* connection 1 was pruned by a broadcast (its heartbeat interval is still
\* set) that wrote the event to connection 2
C24_PrunedInBroadcast ==
  /\ 1 \in sseStale /\ 1 \in sseHeartbeats
  /\ 1 \notin {client.id : client \in sseClients}
  /\ \E w \in sseWrites : w[1] = 2


\* ---------------------------------------------------------------- C25
\* C25: POST /devices/events with the type and message fields appends an
\* event for the device of the request's token when the token is a
\* device's, and for the device its device_id field names when the request
\* has no Authorization header and that device is registered.
C25_DeviceResolvedEitherWay ==
  [][(lastEventPost'.seq # lastEventPost.seq /\ lastEventPost'.complete) =>
       LET request == lastEventPost'
           byToken == {r \in devices : request.authorization = Some(r.authToken)}
           byDeviceId == {r \in devices : request.device_id = Some(r.deviceId)}
       IN /\ byToken # {} =>
               /\ request.code = 201
               /\ \E r \in byToken : eventSeq[r.id] \in deviceEvents'[r.id]
          /\ (request.authorization = Null /\ byDeviceId # {}) =>
               /\ request.code = 201
               /\ \E r \in byDeviceId : eventSeq[r.id] \in deviceEvents'[r.id]]_vars


\* ---------------------------------------------------------------- C26
\* C26: two resolutions of one barcode that both missed the cache and both
\* looked the product up leave one cache row: there is never more than one
\* row of a barcode, a resolution that ends with 201 ends with the row of its
\* barcode in the cache, and one that ends while the row is there adds none.
C26_OneCacheRow ==
  [][/\ \A b \in Barcodes : Cardinality({r \in barcodes' : r.barcode = b}) <= 1
     /\ \A s \in RaceSlots :
          (scans[s].pc = "llm" /\ scans'[s].pc = "idle") =>
            /\ lastScan'.code = 201 =>
                 Cardinality({r \in barcodes' : r.barcode = scans[s].barcode}) = 1
            /\ (\E r \in barcodes : r.barcode = scans[s].barcode) =>
                 barcodes' = barcodes /\ lastScan'.code = 500]_vars

\* the second of two resolutions that both missed the cache: it was posted
\* before any resolution of the barcode had ended and ended in 500 with the
\* row of the first in the cache
C26_SecondInsertRefused ==
  /\ lastScan.code = 500
  /\ ~lastScan.again
  /\ \E r \in barcodes : r.barcode = lastScan.barcode
  /\ \A s \in RaceSlots : scans[s].pc = "idle"


\* ---------------------------------------------------------------- C27
\* C27: every queueOperation call stores one new pending record under a key
\* no record had, whatever item the operation targets, and leaves the
\* records already queued as they were.
C27_EveryCallStoresOwnRecord ==
  [][/\ ~lastQueued'.rejected
     /\ (DOMAIN store' \ DOMAIN store # {}) =>
          /\ Cardinality(DOMAIN store' \ DOMAIN store) = 1
          /\ \A k \in DOMAIN store' \ DOMAIN store : store'[k].status = "pending"
          /\ \A k \in DOMAIN store : store'[k] = store[k]]_vars

\* ---------------------------------------------------------------- C28
\* C28: the single-flight flag is set only while a processQueue invocation
\* runs: once every invocation has ended, by returning or by a rejected
\* read, update or removal of a queue record, processing is false.
C28_FlagReleased ==
  processing => \E c \in Triggers : sweeps[c].pc # "idle"


\* ---------------------------------------------------------------- C29
\* C29: the category a PUT /items/:id wrote to an item while its enrichment
\* task was running is the item's category when the task has ended
C29_EditSurvivesEnrichment ==
  [][\A id \in DOMAIN tasks \cap DOMAIN edits :
       (TaskEnds(id) /\ id \in DOMAIN items') =>
         items'[id].categoryId = edits[id]]_vars


\* ---------------------------------------------------------------- C30
\* C30: every item is completed exactly when it has a completedAt
C30_CompletedIffCompletedAt ==
  \A id \in DOMAIN items : items[id].isCompleted <=> (items[id].completedAt # Null)

\* an item that was completed while its enrichment ran, whose task has since
\* returned, and that a cleanup sweep has passed over
C30_CompletedAndEnriched ==
  /\ lastTask.id \in DOMAIN items
  /\ lastTask.outcome = "returned"
  /\ items[lastTask.id].isCompleted
  /\ items[lastTask.id].completedAt # Null
  /\ cleanupResult # Null

====
